---------------------------- MODULE Spec2Model ----------------------------
(***************************************************************************)
(* Model of the read-only SQL gateway: the sql-query handler with runQuery *)
(* and the lexical safety functions validateSelectOnly, injectTopLimit and *)
(* toTediousNamedParams; getPool of db.js under concurrent callers; and    *)
(* the sql-schema handler with getSampleJoins.  Text is a sequence of      *)
(* one-character strings so that the regular expressions and the string    *)
(* operations of the source are evaluated character by character.          *)
(***************************************************************************)
EXTENDS Integers, Sequences, FiniteSets, TLC

VARIABLES
    fnOp,        \* SpecFn: which exported function has been applied ("none" before)
    fnIn,        \* SpecFn: the SQL text argument
    fnN,         \* SpecFn: the limit argument of injectTopLimit
    fnParams,    \* SpecFn: the params argument of runQuery
    fnOut,       \* SpecFn: the result [err, s]
    fnOut2,      \* SpecFn: the result of applying injectTopLimit a second time
    fnBound,     \* SpecFn: the bindings runQuery made
    pc,          \* handler position: "start", "awaitToken", "awaitConnectDev",
                 \* "awaitConnectMI", "awaitCached", "awaitQuery", "done" ("off" in SpecFn)
    body,        \* what req.json() yields: [ok, sql, params, row_limit]
    rowLimitDefault, \* module constant ROW_LIMIT_DEFAULT (a Num)
    limit,       \* handler local `limit` (a Num, possibly NaN)
    sqlText,     \* handler local `sql` after the safety pipeline
    calls,       \* order in which the handler invoked its collaborators
    poolPromise, \* module variable poolPromise of db.js
    bindings,    \* request.input calls made by runQuery, in order
    dbSql,       \* statements handed to request.query, in order
    rowCount,    \* rows.length of the recordset returned by the database
    response,    \* the handler's return value [status, error, row_count, sql_used, notes]
    log,         \* what the sql-query handler wrote through ctx.log and ctx.log.error
    gpDev,       \* SpecPool: SQL_CONNECTION_STRING set and NODE_ENV === 'development'
    gpPc,        \* SpecPool: position of each getPool caller
    gpAwait,     \* SpecPool: the connection promise each caller returned (0: none)
    gpGot,       \* SpecPool: the pool handle each caller received (0: none)
    pools,       \* SpecPool: the connection pools opened so far, in order [st, mi]
    poolIdx,     \* SpecPool: which of them poolPromise refers to (0: undefined)
    spc,         \* sql-schema handler position ("off" outside SpecSchema)
    sreq,        \* sql-schema request [method, header, bodyOk, object_types, tables]
    senv,        \* sql-schema module constants read from process.env
    db,          \* the database catalog the introspection queries read
    mode,        \* sql-schema local `mode`
    objects,     \* sql-schema local `objects`
    usingCatalogFallback, \* sql-schema local of that name
    scalls,      \* queries the sql-schema handler issued, in order [q, params]
    recs,        \* recordsets of the columns, primary-key and foreign-key queries
    sresp,       \* the sql-schema handler's return value [status, error, tables, notes]
    slog,        \* what the sql-schema handler wrote through ctx.log.error
    round,       \* "first", or "repeat" when the same request is served again
    firstNames   \* the names of the first round's tables list, in order

vars == <<fnOp, fnIn, fnN, fnParams, fnOut, fnOut2, fnBound, pc, body, rowLimitDefault, limit,
          sqlText, calls, poolPromise, bindings, dbSql, rowCount, response, log,
          gpDev, gpPc, gpAwait, gpGot, pools, poolIdx,
          spc, sreq, senv, db, mode, objects, usingCatalogFallback, scalls, recs, sresp,
          slog, round, firstNames>>

fnVars == <<fnOp, fnIn, fnN, fnParams, fnOut, fnOut2, fnBound>>

handlerVars == <<pc, body, rowLimitDefault, limit, sqlText, calls, poolPromise,
                 bindings, dbSql, rowCount, response, log>>

poolVars == <<gpDev, gpPc, gpAwait, gpGot, pools, poolIdx>>

schemaVars == <<spc, sreq, senv, db, mode, objects, usingCatalogFallback, scalls, recs,
                sresp, slog, round, firstNames>>

(***************************************************************************)
(* Characters and character classes of JavaScript regular expressions.     *)
(***************************************************************************)
LowerLetters ==
    <<"a","b","c","d","e","f","g","h","i","j","k","l","m",
      "n","o","p","q","r","s","t","u","v","w","x","y","z">>

UpperLetters ==
    <<"A","B","C","D","E","F","G","H","I","J","K","L","M",
      "N","O","P","Q","R","S","T","U","V","W","X","Y","Z">>

Digits == <<"0","1","2","3","4","5","6","7","8","9">>

Range(f) == {f[i] : i \in DOMAIN f}

LowerSet == Range(LowerLetters)

UpperSet == Range(UpperLetters)

LetterSet == LowerSet \cup UpperSet

DigitSet == Range(Digits)

\* \w
WordChars == LetterSet \cup DigitSet \cup {"_"}

\* \s (the members that the inputs of the model use)
SpaceChars == {" ", "\t", "\n", "\r"}

IsSpace(c) == c \in SpaceChars

IsDigit(c) == c \in DigitSet

IsWordChar(c) == c \in WordChars

IdentStartChars == LetterSet \cup {"_"}

\* [A-Za-z_]
IsIdentStart(c) == c \in IdentStartChars

\* case folding of the /i flag
ToLower(c) ==
    IF c \in UpperSet
    THEN LowerLetters[CHOOSE i \in 1..26 : UpperLetters[i] = c]
    ELSE c

LowerText(s) == [i \in 1..Len(s) |-> ToLower(s[i])]

SetMin(S) == CHOOSE x \in S : \A y \in S : x <= y

SetMax(S) == CHOOSE x \in S : \A y \in S : y <= x

\* String.prototype.trim
Trim(s) ==
    LET keep == {i \in 1..Len(s) : ~IsSpace(s[i])}
    IN  IF keep = {} THEN <<>> ELSE SubSeq(s, SetMin(keep), SetMax(keep))

\* the literal w (lower case) matches s at index i under the /i flag
MatchAtCI(s, i, w) ==
    /\ i >= 1
    /\ i + Len(w) - 1 <= Len(s)
    /\ \A k \in 1..Len(w) : ToLower(s[i + k - 1]) = w[k]

\* the literal w matches s at index i, case-sensitively
MatchAt(s, i, w) ==
    /\ i >= 1
    /\ i + Len(w) - 1 <= Len(s)
    /\ \A k \in 1..Len(w) : s[i + k - 1] = w[k]

\* \b between s[i-1] and s[i] (i in 1..Len(s)+1)
WordBoundary(s, i) ==
    LET before == i >= 2 /\ i - 1 <= Len(s) /\ IsWordChar(s[i - 1])
        after  == i >= 1 /\ i <= Len(s) /\ IsWordChar(s[i])
    IN  before # after

\* index after the maximal run of characters of class C starting at i
RECURSIVE SkipSpaces(_, _)
SkipSpaces(s, i) ==
    IF i <= Len(s) /\ IsSpace(s[i]) THEN SkipSpaces(s, i + 1) ELSE i

RECURSIVE SkipWord(_, _)
SkipWord(s, i) ==
    IF i <= Len(s) /\ IsWordChar(s[i]) THEN SkipWord(s, i + 1) ELSE i

RECURSIVE SkipDigits(_, _)
SkipDigits(s, i) ==
    IF i <= Len(s) /\ IsDigit(s[i]) THEN SkipDigits(s, i + 1) ELSE i

(***************************************************************************)
(* Numbers: a Num is an integer or NaN.                                    *)
(***************************************************************************)
NaN == [nan |-> TRUE, v |-> 0]

Num(i) == [nan |-> FALSE, v |-> i]

MathMin(a, b) ==
    IF a.nan \/ b.nan THEN NaN ELSE IF a.v <= b.v THEN a ELSE b

MathMax(a, b) ==
    IF a.nan \/ b.nan THEN NaN ELSE IF a.v >= b.v THEN a ELSE b

\* decimal digits of a natural number
RECURSIVE NatToText(_)
NatToText(n) ==
    IF n < 10 THEN <<Digits[n + 1]>>
    ELSE NatToText(n \div 10) \o <<Digits[(n % 10) + 1]>>

IntToText(i) == IF i < 0 THEN <<"-">> \o NatToText(0 - i) ELSE NatToText(i)

\* `${n}` for a Num
NumToText(n) == IF n.nan THEN <<"N","a","N">> ELSE IntToText(n.v)

DigitValue(c) == (CHOOSE i \in 1..10 : Digits[i] = c) - 1

RECURSIVE DigitsValue(_)
DigitsValue(s) ==
    IF s = <<>> THEN 0
    ELSE 10 * DigitsValue(SubSeq(s, 1, Len(s) - 1)) + DigitValue(s[Len(s)])


(***************************************************************************)
(* sqlSafety.js                                                            *)
(***************************************************************************)
kwSelect == <<"s","e","l","e","c","t">>

kwTop == <<"t","o","p">>

\* the alternatives of the keyword group of the banned pattern
BannedWords ==
    { <<"d","e","l","e","t","e">>,
      <<"i","n","s","e","r","t">>,
      <<"u","p","d","a","t","e">>,
      <<"m","e","r","g","e">>,
      <<"a","l","t","e","r">>,
      <<"d","r","o","p">>,
      <<"c","r","e","a","t","e">>,
      <<"g","r","a","n","t">>,
      <<"r","e","v","o","k","e">>,
      <<"t","r","u","n","c","a","t","e">>,
      <<"e","x","e","c">>,
      <<"e","x","e","c","u","t","e">>,
      <<"x","p","_">>,
      <<"s","p","_">> }

ErrOnlySelect == "Only SELECT statements are allowed."

ErrProhibited == "Prohibited keywords or comment markers found."

Ok(s) == [err |-> "", s |-> s]

Throw(msg) == [err |-> msg, s |-> <<>>]

\* /^select\s/i.test(s)
SelectPrefixTest(s) ==
    /\ MatchAtCI(s, 1, kwSelect)
    /\ 7 <= Len(s)
    /\ IsSpace(s[7])

\* a variant of BannedTest whose pattern lacks the i flag
BannedTest_CaseSensitive(s) ==
    \E i \in 1..Len(s) :
        \/ \E kw \in BannedWords :
              /\ WordBoundary(s, i)
              /\ MatchAt(s, i, kw)
              /\ WordBoundary(s, i + Len(kw))
        \/ s[i] = ";"
        \/ MatchAt(s, i, <<"-","-">>)
        \/ MatchAt(s, i, <<"/","*">>)

\* /\b(delete|...|xp_|sp_)\b|;|--|\/\*/i.test(s)
BannedTest(s) ==
    \E i \in 1..Len(s) :
        \/ \E kw \in BannedWords :
              /\ WordBoundary(s, i)
              /\ MatchAtCI(s, i, kw)
              /\ WordBoundary(s, i + Len(kw))
        \/ s[i] = ";"
        \/ MatchAt(s, i, <<"-","-">>)
        \/ MatchAt(s, i, <<"/","*">>)

\* a variant of validateSelectOnly that lacks the SELECT-prefix check
validateSelectOnly_NoPrefixCheck(sql) ==
    LET s == Trim(sql)
    IN  IF BannedTest(s) THEN Throw(ErrProhibited) ELSE Ok(s)

validateSelectOnly(sql) ==
    LET s == Trim(sql)
    IN  IF ~SelectPrefixTest(s) THEN Throw(ErrOnlySelect)
        ELSE IF BannedTest(s) THEN Throw(ErrProhibited)
        ELSE Ok(s)

\* /\bselect\s+top\s*(\(|\d)/i.test(sql)
HasTop(sql) ==
    \E i \in 1..Len(sql) :
        /\ WordBoundary(sql, i)
        /\ MatchAtCI(sql, i, kwSelect)
        /\ LET j == SkipSpaces(sql, i + 6)
           IN  /\ j > i + 6
               /\ MatchAtCI(sql, j, kwTop)
               /\ LET k == SkipSpaces(sql, j + 3)
                  IN  k <= Len(sql) /\ (sql[k] = "(" \/ IsDigit(sql[k]))

\* length of the match of /^(\s*select\s+)/i, 0 when it does not match
LeadingSelectLen(sql) ==
    LET a == SkipSpaces(sql, 1)
        b == SkipSpaces(sql, a + 6)
    IN  IF MatchAtCI(sql, a, kwSelect) /\ b > a + 6 THEN b - 1 ELSE 0

\* a variant of TopClause without the space that ends the clause
TopClause_NoSpace(n) == <<"T","O","P","(">> \o NumToText(n) \o <<")">>

\* `TOP(${n}) `
TopClause(n) == <<"T","O","P","(">> \o NumToText(n) \o <<")"," ">>

\* sql.replace(/^(\s*select\s+)/i, `$1TOP(${n}) `)
ReplaceLeadingSelect(sql, n) ==
    LET m == LeadingSelectLen(sql)
    IN  IF m = 0 THEN sql
        ELSE SubSeq(sql, 1, m) \o TopClause(n) \o SubSeq(sql, m + 1, Len(sql))

\* a variant of injectTopLimit that never looks for an existing TOP
injectTopLimit_NoCheck(sql, n) == ReplaceLeadingSelect(sql, n)

injectTopLimit(sql, n) ==
    IF HasTop(sql) THEN sql ELSE ReplaceLeadingSelect(sql, n)

\* the scan of sql.replace(/:([A-Za-z_]\w*)/g, '@$1') from index i on: it moves
\* to the next ':' and, when an identifier follows, past the whole match
RECURSIVE ReplaceParamsFrom(_, _)
ReplaceParamsFrom(sql, i) ==
    LET colons == {j \in i..Len(sql) : sql[j] = ":"}
    IN  IF colons = {} THEN SubSeq(sql, i, Len(sql))
        ELSE LET c == SetMin(colons)
                 e == SkipWord(sql, c + 1)
             IN  IF c + 1 <= Len(sql) /\ IsIdentStart(sql[c + 1])
                 THEN SubSeq(sql, i, c - 1) \o <<"@">> \o SubSeq(sql, c + 1, e - 1)
                          \o ReplaceParamsFrom(sql, e)
                 ELSE SubSeq(sql, i, c) \o ReplaceParamsFrom(sql, c + 1)

\* a variant of toTediousNamedParams whose pattern lacks the g flag
toTediousNamedParams_FirstOnly(sql) ==
    LET hits == {i \in 1..Len(sql) :
                    sql[i] = ":" /\ i + 1 <= Len(sql) /\ IsIdentStart(sql[i + 1])}
    IN  IF hits = {} THEN sql
        ELSE [k \in 1..Len(sql) |-> IF k = SetMin(hits) THEN "@" ELSE sql[k]]

toTediousNamedParams(sql) == ReplaceParamsFrom(sql, 1)


(***************************************************************************)
(* JavaScript values as they arrive in a request body or a params object.  *)
(* A number is held in tenths (n = 25 is 2.5) so that whole and non-whole  *)
(* numbers are both present.                                               *)
(***************************************************************************)
JsUndefined == [k |-> "undefined", n |-> 0, b |-> FALSE, s |-> <<>>]

JsNull == [k |-> "null", n |-> 0, b |-> FALSE, s |-> <<>>]

JsNumber(tenths) == [k |-> "number", n |-> tenths, b |-> FALSE, s |-> <<>>]

\* a whole number too large to be held in tenths, held by its decimal digits
JsWhole(digits) == [k |-> "number", n |-> 0, b |-> FALSE, s |-> digits]

JsBoolean(b) == [k |-> "boolean", n |-> 0, b |-> b, s |-> <<>>]

JsString(s) == [k |-> "string", n |-> 0, b |-> FALSE, s |-> s]

JsObject == [k |-> "object", n |-> 0, b |-> FALSE, s |-> <<>>]

JsDate == [k |-> "date", n |-> 0, b |-> FALSE, s |-> <<>>]

\* typeof v
TypeOf(v) ==
    CASE v.k = "undefined" -> "undefined"
      [] v.k = "number"    -> "number"
      [] v.k = "boolean"   -> "boolean"
      [] v.k = "string"    -> "string"
      [] OTHER             -> "object"

\* Number.isInteger(v) for a number
IsInteger(v) == v.k = "number" /\ (v.s # <<>> \/ v.n % 10 = 0)

\* the truthiness that || tests
Truthy(v) ==
    CASE v.k = "undefined" -> FALSE
      [] v.k = "null"      -> FALSE
      [] v.k = "number"    -> v.s # <<>> \/ v.n # 0
      [] v.k = "boolean"   -> v.b
      [] v.k = "string"    -> v.s # <<>>
      [] OTHER             -> TRUE

Abs(i) == IF i < 0 THEN 0 - i ELSE i

\* String(v) of a number held in tenths
TenthsToText(t) ==
    (IF t < 0 THEN <<"-">> ELSE <<>>)
    \o NatToText(Abs(t) \div 10)
    \o (IF Abs(t) % 10 = 0 THEN <<>> ELSE <<".", Digits[(Abs(t) % 10) + 1]>>)

\* String(v)
ToStringJs(v) ==
    CASE v.k = "undefined" -> <<"u","n","d","e","f","i","n","e","d">>
      [] v.k = "null"      -> <<"n","u","l","l">>
      [] v.k = "number"    -> IF v.s # <<>> THEN v.s ELSE TenthsToText(v.n)
      [] v.k = "boolean"   -> IF v.b THEN <<"t","r","u","e">> ELSE <<"f","a","l","s","e">>
      [] v.k = "string"    -> v.s
      [] v.k = "date"      -> <<"T","h","u"," ","J","a","n"," ","0","1"," ","1","9","7","0">>
      [] OTHER             -> <<"[","o","b","j","e","c","t"," ","O","b","j","e","c","t","]">>

\* parseInt(text, 10)
ParseIntText(text) ==
    LET a    == SkipSpaces(text, 1)
        neg  == a <= Len(text) /\ text[a] = "-"
        d    == IF a <= Len(text) /\ text[a] \in {"-", "+"} THEN a + 1 ELSE a
        e    == SkipDigits(text, d)
    IN  IF e = d THEN NaN
        ELSE Num((IF neg THEN -1 ELSE 1) * DigitsValue(SubSeq(text, d, e - 1)))

\* parseInt(v, 10) of a JavaScript value
ParseIntJs(v) == ParseIntText(ToStringJs(v))

\* parseInt(n, 10) of a number that is an integer or NaN
ParseIntNum(n) == ParseIntText(NumToText(n))

(***************************************************************************)
(* db.js: the parameter binding loop of runQuery.                          *)
(***************************************************************************)
\* a variant of WireType that tests typeof 'number' before Number.isInteger
WireType_NumberFirst(v) ==
    IF TypeOf(v) = "number" THEN "Float"
    ELSE IF v.k = "date" THEN "DateTime2"
    ELSE IF TypeOf(v) = "boolean" THEN "Bit"
    ELSE "NVarChar"

\* the if / else-if chain that picks the wire type
WireType(v) ==
    IF TypeOf(v) = "number" /\ IsInteger(v) THEN "Int"
    ELSE IF TypeOf(v) = "number" THEN "Float"
    ELSE IF v.k = "date" THEN "DateTime2"
    ELSE IF TypeOf(v) = "boolean" THEN "Bit"
    ELSE "NVarChar"

\* the value handed to request.input
BoundValue(v) == IF WireType(v) = "NVarChar" THEN JsString(ToStringJs(v)) ELSE v

\* for (const [k, v] of Object.entries(params)) ... request.input(k, type, value)
RECURSIVE BindParams(_)
BindParams(params) ==
    IF params = <<>> THEN <<>>
    ELSE LET e == Head(params)
         IN  (IF e.val.k \in {"null", "undefined"} THEN <<>>
              ELSE <<[name |-> e.key, type |-> WireType(e.val), value |-> BoundValue(e.val)]>>)
             \o BindParams(Tail(params))


(***************************************************************************)
(* Inputs of the pure functions.                                           *)
(***************************************************************************)
MaxToks == 3

MaxParams == 2

ToUpper(c) ==
    IF c \in LowerSet
    THEN UpperLetters[CHOOSE i \in 1..26 : LowerLetters[i] = c]
    ELSE c

UpperText(s) == [i \in 1..Len(s) |-> ToUpper(s[i])]

Capitalize(s) == [i \in 1..Len(s) |-> IF i = 1 THEN ToUpper(s[i]) ELSE s[i]]

RECURSIVE Flatten(_)
Flatten(toks) == IF toks = <<>> THEN <<>> ELSE Head(toks) \o Flatten(Tail(toks))

TokSeqs(T, n) == UNION {[1..m -> T] : m \in 0..n}

\* lexical pieces that SQL text is put together from
FnTokens ==
    { kwSelect, kwTop, <<" ">>, <<"(">>, <<"5">>, <<":">>, <<"a">>, <<"_">>,
      <<";">>, <<"-">>, <<"'">> }

FnPrefixes == { <<>>, <<" ","S","e","L","e","C","T","\n">> }

TokInputs == {p \o Flatten(x) : p \in FnPrefixes, x \in TokSeqs(FnTokens, MaxToks)}

BannedMarkers == BannedWords \cup { <<"-","-">>, <<"/","*">> }

\* a SELECT statement with a banned keyword or marker between two neighbours
BannedFamily ==
    { <<"s","e","l","e","c","t"," ">> \o l \o k \o r :
        l \in { <<>>, <<"a">>, <<":">> },
        k \in UNION {{w, UpperText(w), Capitalize(w)} : w \in BannedMarkers},
        r \in { <<>>, <<"_">>, <<"a">>, <<"(">> } }

\* statements quoted by the documentation and the specification
ExampleSqls ==
    { <<"S","E","L","E","C","T"," ","1",";"," ","D","R","O","P"," ","T","A","B","L","E"," ","X">>,
      <<"S","E","L","E","C","T"," ","*"," ","F","R","O","M"," ","S","a","l","e","s","L","T",".","C","u","s","t","o","m","e","r"," ","W","H","E","R","E"," ","C","u","s","t","o","m","e","r","I","D"," ","="," ",":","i","d">>,
      <<"S","E","L","E","C","T"," ","T","O","P","(","5",")"," ","*"," ","F","R","O","M"," ","v","w","U","s","e","r","s">>,
      <<"S","E","L","E","C","T"," ","*"," ","F","R","O","M"," ","S","a","l","e","s","L","T",".","S","a","l","e","s","O","r","d","e","r","H","e","a","d","e","r"," ","W","H","E","R","E"," ","C","u","s","t","o","m","e","r","I","D"," ","="," ",":","i","d"," ","A","N","D"," ","T","o","t","a","l","D","u","e"," ",">","="," ",":","m","i","n","T","o","t","a","l">>,
      <<"S","E","L","E","C","T"," ","T","O","P","(",":","n",")"," ","*"," ","F","R","O","M"," ","S","a","l","e","s","L","T",".","C","u","s","t","o","m","e","r"," ","O","R","D","E","R"," ","B","Y"," ","C","u","s","t","o","m","e","r","I","D">> }

\* statements whose SELECT keyword is directly followed by '*' or '('
NoSpaceSqls ==
    { <<"S","E","L","E","C","T","*","F","R","O","M"," ","t">>,
      <<" ","s","e","l","e","c","t","(","1",")"," ">> }

\* statements that name a system procedure
ProcedureSqls ==
    { <<"S","E","L","E","C","T"," ","x","p","_","c","m","d","s","h","e","l","l">>,
      <<"s","e","l","e","c","t"," ","1"," ","f","r","o","m"," ","S","P","_","e","x","e","c","u","t","e","s","q","l">> }

FnSqlInputs == TokInputs \cup BannedFamily \cup ExampleSqls \cup NoSpaceSqls \cup ProcedureSqls

FnLimits == { Num(1), Num(200), Num(5000) }

ParamKeys == { <<"i","d">>, <<"n">>, <<"p","1">> }

JsonValues ==
    { JsNull, JsNumber(0), JsNumber(420), JsNumber(-70), JsNumber(25),
      JsBoolean(TRUE), JsBoolean(FALSE), JsString(<<>>), JsString(<<"a","b","c">>), JsObject,
      JsWhole(<<"2","1","4","7","4","8","3","6","4","7">>),
      JsWhole(<<"2","1","4","7","4","8","3","6","4","8">>),
      JsWhole(<<"-","2","1","4","7","4","8","3","6","4","9">>) }

\* values that only a direct caller of runQuery can pass
JsValues == JsonValues \cup { JsUndefined, JsDate }

\* params objects: entries in insertion order, keys distinct
ParamsOver(V, n) ==
    { p \in UNION {[1..m -> [key : ParamKeys, val : V]] : m \in 0..n} :
        \A i, j \in 1..Len(p) : i # j => p[i].key # p[j].key }

(***************************************************************************)
(* SpecFn: each exported pure function applied to an input.                *)
(***************************************************************************)
\* getPool has no concurrent callers
PoolOff ==
    /\ gpDev = FALSE
    /\ gpPc = <<>>
    /\ gpAwait = <<>>
    /\ gpGot = <<>>
    /\ pools = <<>>
    /\ poolIdx = 0

\* no sql-schema request is being served
SchemaOff ==
    /\ spc = "off"
    /\ sreq = [method |-> "none"]
    /\ senv = [name |-> "none"]
    /\ db = [name |-> "none"]
    /\ mode = <<>>
    /\ objects = <<>>
    /\ usingCatalogFallback = FALSE
    /\ scalls = <<>>
    /\ recs = [columns |-> <<>>, pk |-> <<>>, fk |-> <<>>]
    /\ sresp = [status |-> 0, error |-> "", tables |-> <<>>, notes |-> <<>>]
    /\ slog = <<>>
    /\ round = "first"
    /\ firstNames = <<>>

\* no sql-query request is being served
QueryOff ==
    /\ pc = "off"
    /\ body = [ok |-> FALSE, sql |-> JsUndefined,
               params |-> [present |-> FALSE, entries |-> <<>>], row_limit |-> JsUndefined]
    /\ rowLimitDefault = Num(200)
    /\ limit = NaN
    /\ sqlText = <<>>
    /\ calls = <<>>
    /\ bindings = <<>>
    /\ dbSql = <<>>
    /\ rowCount = 0
    /\ response = [status |-> 0, error |-> "", row_count |-> 0, sql_used |-> <<>>, notes |-> <<>>]
    /\ log = <<>>

HandlerOff == QueryOff /\ poolPromise = "undefined"

FnIdle ==
    /\ fnOp = "none"
    /\ fnIn = <<>>
    /\ fnN = NaN
    /\ fnParams = <<>>
    /\ fnOut = Ok(<<>>)
    /\ fnOut2 = Ok(<<>>)
    /\ fnBound = <<>>

InitFn == FnIdle /\ HandlerOff /\ PoolOff /\ SchemaOff

FnValidate ==
    /\ fnOp = "none"
    /\ \E s \in FnSqlInputs :
          /\ fnIn' = s
          /\ fnOut' = validateSelectOnly(s)
    /\ fnOp' = "validateSelectOnly"
    /\ UNCHANGED <<fnN, fnParams, fnOut2, fnBound>>
    /\ UNCHANGED <<handlerVars, poolVars, schemaVars>>

FnInject ==
    /\ fnOp = "none"
    /\ \E s \in FnSqlInputs, n \in FnLimits :
          /\ fnIn' = s
          /\ fnN' = n
          /\ fnOut' = Ok(injectTopLimit(s, n))
    /\ fnOp' = "injectTopLimit"
    /\ UNCHANGED <<fnParams, fnOut2, fnBound>>
    /\ UNCHANGED <<handlerVars, poolVars, schemaVars>>

\* injectTopLimit applied to its own result, with the same limit
FnInjectAgain ==
    /\ fnOp = "injectTopLimit"
    /\ fnOut2' = Ok(injectTopLimit(fnOut.s, fnN))
    /\ fnOp' = "injectTopLimit2"
    /\ UNCHANGED <<fnIn, fnN, fnParams, fnOut, fnBound>>
    /\ UNCHANGED <<handlerVars, poolVars, schemaVars>>

FnTranslate ==
    /\ fnOp = "none"
    /\ \E s \in FnSqlInputs :
          /\ fnIn' = s
          /\ fnOut' = Ok(toTediousNamedParams(s))
    /\ fnOp' = "toTediousNamedParams"
    /\ UNCHANGED <<fnN, fnParams, fnOut2, fnBound>>
    /\ UNCHANGED <<handlerVars, poolVars, schemaVars>>

FnBind ==
    /\ fnOp = "none"
    /\ \E p \in ParamsOver(JsValues, MaxParams) :
          /\ fnParams' = p
          /\ fnBound' = BindParams(p)
    /\ fnOp' = "runQuery"
    /\ UNCHANGED <<fnIn, fnN, fnOut, fnOut2>>
    /\ UNCHANGED <<handlerVars, poolVars, schemaVars>>

NextFn == FnValidate \/ FnInject \/ FnInjectAgain \/ FnTranslate \/ FnBind

SpecFn == InitFn /\ [][NextFn]_vars


(***************************************************************************)
(* Properties of the pure functions, checked under SpecFn.                 *)
(***************************************************************************)
\* the text begins with the SELECT keyword: the six letters in any case,
\* not continued by a further word character
BeginsWithSelectKeyword(t) ==
    /\ Len(t) >= 6
    /\ LowerText(SubSeq(t, 1, 6)) = kwSelect
    /\ (Len(t) = 6 \/ ~IsWordChar(t[7]))

\* C1: a statement whose trimmed text does not begin with the SELECT keyword is
\* rejected by validateSelectOnly with an error, and no statement is returned
C1_NonSelectRejected ==
    (fnOp = "validateSelectOnly" /\ ~BeginsWithSelectKeyword(Trim(fnIn)))
        => (fnOut.err # "" /\ fnOut.s = <<>>)

\* a rejected statement that mentions select, but not at its start
C1_Witness ==
    /\ fnOp = "validateSelectOnly"
    /\ ~BeginsWithSelectKeyword(Trim(fnIn))
    /\ \E i \in 2..Len(fnIn) : MatchAtCI(fnIn, i, kwSelect)
    /\ ~BannedTest(Trim(fnIn))
    /\ fnOut.err = ErrOnlySelect

\* the keywords the claim lists
ListedKeywords ==
    { <<"d","e","l","e","t","e">>, <<"i","n","s","e","r","t">>, <<"u","p","d","a","t","e">>, <<"m","e","r","g","e">>, <<"a","l","t","e","r">>, <<"d","r","o","p">>, <<"c","r","e","a","t","e">>,
      <<"g","r","a","n","t">>, <<"r","e","v","o","k","e">>, <<"t","r","u","n","c","a","t","e">>, <<"e","x","e","c">>, <<"e","x","e","c","u","t","e">> }

\* w stands in s at index i as a whole word, in any letter case
WholeWordAt(s, i, w) ==
    LET e == i + Len(w) - 1
    IN  /\ e <= Len(s)
        /\ \A k \in 1..Len(w) : ToLower(s[i + k - 1]) = w[k]
        /\ (i = 1 \/ ~IsWordChar(s[i - 1]))
        /\ (e = Len(s) \/ ~IsWordChar(s[e + 1]))

ContainsListedToken(s) ==
    \/ \E i \in 1..Len(s), w \in ListedKeywords : WholeWordAt(s, i, w)
    \/ \E i \in 1..Len(s) : s[i] = ";"
    \/ \E i \in 1..(Len(s) - 1) : SubSeq(s, i, i + 1) \in { <<"-","-">>, <<"/","*">> }

\* C2: a statement that contains a listed keyword as a whole word, a semicolon,
\* '--' or '/*' is rejected by validateSelectOnly; 'SELECT 1; DROP TABLE X' is
C2_BannedRejected ==
    /\ (fnOp = "validateSelectOnly" /\ ContainsListedToken(fnIn)) => fnOut.err # ""
    /\ (fnOp = "validateSelectOnly" /\ fnIn = <<"S","E","L","E","C","T"," ","1",";"," ","D","R","O","P"," ","T","A","B","L","E"," ","X">>) => fnOut.err # ""

\* a SELECT statement rejected only for an upper-case keyword it contains
C2_Witness ==
    /\ fnOp = "validateSelectOnly"
    /\ BeginsWithSelectKeyword(Trim(fnIn))
    /\ \E i \in 1..Len(fnIn) : WholeWordAt(fnIn, i, <<"t","r","u","n","c","a","t","e">>) /\ fnIn[i] = "T"
    /\ \A i \in 1..Len(fnIn) : fnIn[i] \notin {";", "-", "/"}
    /\ fnOut.err = ErrProhibited

\* TOP( or TOP <digit> stands directly after the leading SELECT keyword of s
LeadingTop(s) ==
    \E a \in 0..Len(s), b \in 1..Len(s), c \in 0..Len(s) :
        /\ a + 6 + b + 3 + c + 1 <= Len(s)
        /\ \A i \in 1..a : IsSpace(s[i])
        /\ LowerText(SubSeq(s, a + 1, a + 6)) = kwSelect
        /\ \A i \in (a + 7)..(a + 6 + b) : IsSpace(s[i])
        /\ LowerText(SubSeq(s, a + 7 + b, a + 9 + b)) = kwTop
        /\ \A i \in (a + 10 + b)..(a + 9 + b + c) : IsSpace(s[i])
        /\ (s[a + 10 + b + c] = "(" \/ IsDigit(s[a + 10 + b + c]))

\* C7: injectTopLimit applied twice with the same limit gives what one
\* application gives, and a statement with TOP directly after its leading
\* SELECT is returned unchanged, whatever the limit
C7_InjectIdempotent ==
    /\ fnOp = "injectTopLimit2" => fnOut2 = fnOut
    /\ (fnOp \in {"injectTopLimit", "injectTopLimit2"} /\ LeadingTop(fnIn)) => fnOut.s = fnIn
    /\ (fnOp \in {"injectTopLimit", "injectTopLimit2"} /\ fnIn = <<"S","E","L","E","C","T"," ","T","O","P","(","5",")"," ","*"," ","F","R","O","M"," ","v","w","U","s","e","r","s">>)
          => fnOut.s = fnIn

\* a second application after a first one that did insert a clause
C7_Witness ==
    /\ fnOp = "injectTopLimit2"
    /\ fnOut.s # fnIn
    /\ fnN = Num(5000)
    /\ fnOut2 = fnOut

\* a ':identifier' token stands in s at index i
PlaceholderAt(s, i) == i < Len(s) /\ s[i] = ":" /\ (s[i + 1] \in LetterSet \/ s[i + 1] = "_")

\* C9: toTediousNamedParams leaves no ':identifier', turns the ':' of every one
\* into '@' and changes no other character, inside quotes as outside
C9_AllPlaceholdersRewritten ==
    fnOp = "toTediousNamedParams" =>
        /\ Len(fnOut.s) = Len(fnIn)
        /\ \A i \in 1..Len(fnIn) :
              /\ ~PlaceholderAt(fnOut.s, i)
              /\ fnOut.s[i] = (IF PlaceholderAt(fnIn, i) THEN "@" ELSE fnIn[i])

\* a placeholder that directly follows a quote character, rewritten
C9_Witness ==
    /\ fnOp = "toTediousNamedParams"
    /\ \E i \in 2..Len(fnIn) : fnIn[i - 1] = "'" /\ PlaceholderAt(fnIn, i) /\ fnOut.s[i] = "@"

\* the wire type the claim assigns to a value that is neither null nor undefined
ClaimedType(v) ==
    CASE v.k = "number" /\ v.n % 10 = 0 -> "Int"
      [] v.k = "number" /\ v.n % 10 # 0 -> "Float"
      [] v.k = "date"                   -> "DateTime2"
      [] v.k = "boolean"                -> "Bit"
      [] OTHER                          -> "NVarChar"

Bindable(params) == {i \in 1..Len(params) : params[i].val.k \notin {"null", "undefined"}}

\* C10: runQuery binds exactly the keys whose value is neither null nor
\* undefined, once each and in order, with the wire type of the claim's table,
\* text values converted with String
C10_BindingClassification ==
    fnOp = "runQuery" =>
        /\ Len(fnBound) = Cardinality(Bindable(fnParams))
        /\ \A i \in Bindable(fnParams) :
              LET pos == Cardinality({j \in Bindable(fnParams) : j <= i})
                  v   == fnParams[i].val
              IN  /\ fnBound[pos].name = fnParams[i].key
                  /\ fnBound[pos].type = ClaimedType(v)
                  /\ fnBound[pos].value =
                        (IF ClaimedType(v) = "NVarChar" THEN JsString(ToStringJs(v)) ELSE v)

\* a null key skipped next to a whole number bound as Int
C10_Witness ==
    /\ fnOp = "runQuery"
    /\ Len(fnParams) = 2
    /\ fnParams[1].val = JsNull
    /\ fnParams[2].val = JsNumber(420)
    /\ fnBound = <<[name |-> fnParams[2].key, type |-> "Int", value |-> JsNumber(420)]>>


(***************************************************************************)
(* The database behind request.query: it fails, or it returns a recordset  *)
(* whose size respects the TOP clause of the statement's outer SELECT.     *)
(***************************************************************************)
kwDistinct == <<"d","i","s","t","i","n","c","t">>

\* the word w stands at index i of s, in any case, and ends there
WordAt(s, i, w) == MatchAtCI(s, i, w) /\ WordBoundary(s, i + Len(w))

BindingNamed(bs, name) == {i \in 1..Len(bs) : bs[i].name = name}

\* the row bound that  TOP <operand>  gives; ok is FALSE when the operand is
\* neither a number nor a bound integer parameter
TopOperand(s, i, bs) ==
    LET e == SkipDigits(s, i)
        f == SkipWord(s, i + 1)
    IN  IF e > i THEN [ok |-> TRUE, max |-> DigitsValue(SubSeq(s, i, e - 1)), next |-> e]
        ELSE IF i <= Len(s) /\ s[i] = "@" /\ f > i + 1
        THEN LET hits == BindingNamed(bs, SubSeq(s, i + 1, f - 1))
             IN  IF hits # {} /\ \A h \in hits : bs[h].type = "Int" /\ bs[h].value.n >= 0
                 THEN [ok |-> TRUE, max |-> bs[SetMin(hits)].value.n \div 10, next |-> f]
                 ELSE [ok |-> FALSE, max |-> 0, next |-> f]
        ELSE [ok |-> FALSE, max |-> 0, next |-> i]

\* how the database reads the outer SELECT of a statement:
\*   SELECT [DISTINCT] [TOP (n) | TOP n] <select list> ...
\* ok: it can be executed; bounded/max: the row bound of its TOP clause
DbPlan(s, bs) ==
    LET m  == LeadingSelectLen(s)
        d  == IF WordAt(s, m + 1, kwDistinct) THEN SkipSpaces(s, m + 9) ELSE m + 1
        t  == WordAt(s, d, kwTop)
        p  == SkipSpaces(s, d + 3)
        par == t /\ p <= Len(s) /\ s[p] = "("
        op == TopOperand(s, IF par THEN SkipSpaces(s, p + 1) ELSE p, bs)
        cl == SkipSpaces(s, op.next)
        r  == IF ~t THEN d
              ELSE IF par THEN SkipSpaces(s, cl + 1) ELSE cl
        closed == ~par \/ (cl <= Len(s) /\ s[cl] = ")")
        listOk == /\ r <= Len(s)
                  /\ ~WordAt(s, r, kwTop)
                  /\ ~WordAt(s, r, kwDistinct)
                  /\ ~WordAt(s, r, kwSelect)
        declared == \A i \in 1..Len(s) :
                        (s[i] = "@" /\ SkipWord(s, i + 1) > i + 1)
                            => BindingNamed(bs, SubSeq(s, i + 1, SkipWord(s, i + 1) - 1)) # {}
    IN  IF m = 0 \/ ~declared THEN [ok |-> FALSE, bounded |-> FALSE, max |-> 0]
        ELSE IF ~t THEN [ok |-> listOk, bounded |-> FALSE, max |-> 0]
        ELSE [ok |-> op.ok /\ closed /\ listOk, bounded |-> TRUE, max |-> op.max]


(***************************************************************************)
(* sqlQuery.js: the sql-query handler, with runQuery and getPool of db.js. *)
(***************************************************************************)
MaxReqToks == 3

MaxRows == 3

RowLimitMax == 5000

RowLimitMin == 1

\* the text that process.env.ROW_LIMIT_DEFAULT || '200' yields
EnvRowLimitDefaults == { <<"2","0","0">>, <<"9","0","0","0">> }

ReqTokens ==
    { <<"s","e","l","e","c","t"," ">>,
      <<"t","o","p","(","3",")"," ">>,
      <<"t","o","p","(",":","n",")"," ">>,
      <<"*"," ","f","r","o","m"," ","t"," ">>,
      <<"*"," ","f","r","o","m"," ","(","s","e","l","e","c","t"," ","t","o","p"," ","2"," ","y"," ","f","r","o","m"," ","u",")"," ","z"," ">>,
      <<"d","i","s","t","i","n","c","t"," ">>,
      <<"w","h","e","r","e"," ","a"," ","="," ",":","i","d"," ">> }

ReqTexts ==
    {Flatten(x) : x \in TokSeqs(ReqTokens, MaxReqToks)}
        \cup ExampleSqls \cup { <<"\n"," ","S","e","l","e","c","t","\t","*"," ","f","r","o","m"," ","t"," ">> }

ReqSqls == {JsUndefined, JsNumber(50)} \cup {JsString(s) : s \in ReqTexts}

ReqRowLimits ==
    { JsUndefined, JsNumber(0), JsNumber(-10), JsNumber(20), JsNumber(100),
      JsNumber(60000), JsNumber(25), JsString(<<"a","b","c">>) }

\* body.params: absent, or an object
ReqParams ==
    { [present |-> FALSE, entries |-> <<>>],
      [present |-> TRUE, entries |-> <<[key |-> <<"i","d">>, val |-> JsNumber(420)]>>],
      [present |-> TRUE, entries |-> <<[key |-> <<"n">>, val |-> JsNumber(30)]>>] }

NoResponse == [status |-> 0, error |-> "", row_count |-> 0, sql_used |-> <<>>, notes |-> <<>>]

ErrorResponse(status, msg) ==
    [status |-> status, error |-> msg, row_count |-> 0, sql_used |-> <<>>, notes |-> <<>>]

Err400 == "Body.sql (string) is required."

\* Math.max(1, Math.min(parseInt(row_limit || ROW_LIMIT_DEFAULT, 10), 5000))
EffectiveLimit(row_limit, dflt) ==
    LET parsed == IF Truthy(row_limit) THEN ParseIntJs(row_limit) ELSE ParseIntNum(dflt)
    IN  MathMax(Num(RowLimitMin), MathMin(parsed, Num(RowLimitMax)))

\* rows.length >= limit
AtLeast(r, n) == ~n.nan /\ r >= n.v

\* sql.substring(0, 200) keeps at most this many characters
AuditSqlMax == 200

\* s.substring(a, b) for 0 <= a <= b
Substring(s, a, b) == SubSeq(s, a + 1, IF b < Len(s) THEN b ELSE Len(s))

\* ctx.log.error(err)
ErrorLogged(msg) ==
    [level |-> "error", title |-> "", keys |-> {}, sql |-> <<>>, error |-> msg, row_count |-> 0]

\* ctx.log('SQL Query Error', { error, execution_time_ms })
AuditError(msg) ==
    [level |-> "info", title |-> "SQL Query Error", keys |-> {"error", "execution_time_ms"},
     sql |-> <<>>, error |-> msg, row_count |-> 0]

\* ctx.log('SQL Query Executed', { sql, row_count, execution_time_ms, user })
AuditExecuted(s, r) ==
    [level |-> "info", title |-> "SQL Query Executed",
     keys |-> {"sql", "row_count", "execution_time_ms", "user"},
     sql |-> Substring(s, 0, AuditSqlMax), error |-> "", row_count |-> r]

\* `Truncated to TOP(${limit}).`
TruncatedNote(n) == <<"T","r","u","n","c","a","t","e","d"," ","t","o"," ","T","O","P","(">> \o NumToText(n) \o <<")",".">>

Init ==
    /\ FnIdle
    /\ pc = "start"
    /\ body \in [ok : {TRUE}, sql : ReqSqls, params : ReqParams, row_limit : ReqRowLimits]
                \cup {[ok |-> FALSE, sql |-> JsUndefined,
                       params |-> [present |-> FALSE, entries |-> <<>>],
                       row_limit |-> JsUndefined]}
    /\ \E e \in EnvRowLimitDefaults : rowLimitDefault = ParseIntText(e)
    /\ limit = NaN
    /\ sqlText = <<>>
    /\ calls = <<>>
    /\ poolPromise \in {"undefined", "resolved"}
    /\ bindings = <<>>
    /\ dbSql = <<>>
    /\ rowCount = 0
    /\ response = NoResponse
    /\ log = <<>>
    /\ PoolOff
    /\ SchemaOff

\* the catch block of the handler
Fail_GenericMessage(msg) ==
    /\ log' = log \o <<ErrorLogged(msg), AuditError(msg)>>
    /\ response' = ErrorResponse(500, "Internal Server Error")
    /\ pc' = "done"

Fail(msg) ==
    /\ log' = log \o <<ErrorLogged(msg), AuditError(msg)>>
    /\ response' = ErrorResponse(500, msg)
    /\ pc' = "done"

\* the synchronous part of getPool, entered from runQuery
EnterGetPool(dev) ==
    IF poolPromise # "undefined"
    THEN pc' = "awaitCached" /\ UNCHANGED poolPromise
    ELSE IF dev
    THEN pc' = "awaitConnectDev" /\ poolPromise' = "pending"
    ELSE pc' = "awaitToken" /\ UNCHANGED poolPromise

\* the handler from its entry to its first suspension inside runQuery
HandleRequest ==
    /\ pc = "start"
    /\ UNCHANGED <<fnVars, poolVars, schemaVars, body, rowLimitDefault, bindings, dbSql, rowCount>>
    /\ IF ~body.ok
       THEN /\ Fail("Unexpected token in JSON")
            /\ UNCHANGED <<limit, sqlText, calls, poolPromise>>
       ELSE IF ~Truthy(body.sql) \/ TypeOf(body.sql) # "string"
       THEN /\ response' = ErrorResponse(400, Err400)
            /\ pc' = "done"
            /\ UNCHANGED <<limit, sqlText, calls, poolPromise, log>>
       ELSE LET lim == EffectiveLimit(body.row_limit, rowLimitDefault)
                v   == validateSelectOnly(body.sql.s)
            IN  /\ limit' = lim
                /\ IF v.err # ""
                   THEN /\ Fail(v.err)
                        /\ calls' = <<"validateSelectOnly">>
                        /\ UNCHANGED <<sqlText, poolPromise>>
                   ELSE /\ sqlText' = toTediousNamedParams(injectTopLimit(v.s, lim))
                        /\ calls' = <<"validateSelectOnly", "injectTopLimit",
                                      "toTediousNamedParams", "runQuery">>
                        /\ \E dev \in BOOLEAN : EnterGetPool(dev)
                        /\ UNCHANGED <<response, log>>

\* runQuery once it holds the pool: bind the params, hand the statement over
BindAndQuery ==
    /\ bindings' = BindParams(IF body.params.present THEN body.params.entries ELSE <<>>)
    /\ dbSql' = Append(dbSql, sqlText)
    /\ calls' = Append(calls, "request.query")
    /\ pc' = "awaitQuery"
    /\ UNCHANGED <<response, log>>

\* credential.getToken settles
TokenSettles ==
    /\ pc = "awaitToken"
    /\ UNCHANGED <<fnVars, poolVars, schemaVars, body, rowLimitDefault, limit, sqlText, rowCount>>
    /\ \/ /\ pc' = "awaitConnectMI"
          /\ poolPromise' = "pending"
          /\ UNCHANGED <<calls, bindings, dbSql, response, log>>
       \/ /\ Fail("token acquisition failed")
          /\ UNCHANGED <<calls, bindings, dbSql, poolPromise>>

\* the connection attempt behind poolPromise settles, or a cached promise is awaited
PoolSettles ==
    /\ pc \in {"awaitConnectDev", "awaitConnectMI", "awaitCached"}
    /\ UNCHANGED <<fnVars, poolVars, schemaVars, body, rowLimitDefault, limit, sqlText, rowCount>>
    /\ \/ /\ poolPromise \in {"pending", "resolved"}
          /\ poolPromise' = "resolved"
          /\ BindAndQuery
       \/ /\ poolPromise \in {"pending", "rejected"}
          /\ poolPromise' = IF pc = "awaitConnectMI" THEN "undefined" ELSE "rejected"
          /\ Fail("connection failed")
          /\ UNCHANGED <<calls, bindings, dbSql>>

\* request.query settles and the handler builds its response
QuerySettles ==
    /\ pc = "awaitQuery"
    /\ UNCHANGED <<fnVars, poolVars, schemaVars, body, rowLimitDefault, limit, sqlText, calls, poolPromise,
                   bindings, dbSql>>
    /\ \/ \E r \in 0..MaxRows :
             LET plan == DbPlan(sqlText, bindings)
             IN  /\ plan.ok
                 /\ plan.bounded => r <= plan.max
                 /\ rowCount' = r
                 /\ response' = [status |-> 200, error |-> "", row_count |-> r,
                                 sql_used |-> sqlText,
                                 notes |-> IF AtLeast(r, limit) THEN TruncatedNote(limit)
                                           ELSE <<>>]
                 /\ log' = Append(log, AuditExecuted(sqlText, r))
                 /\ pc' = "done"
       \/ /\ Fail("database error")
          /\ UNCHANGED rowCount

Next == HandleRequest \/ TokenSettles \/ PoolSettles \/ QuerySettles

Spec == Init /\ [][Next]_vars


(***************************************************************************)
(* Properties of the sql-query handler, checked under Spec.                *)
(***************************************************************************)
PipelineOrder ==
    <<"validateSelectOnly", "injectTopLimit", "toTediousNamedParams", "runQuery",
      "request.query">>

IsPrefixOf(a, b) == Len(a) <= Len(b) /\ SubSeq(b, 1, Len(a)) = a

\* C3: request.query is invoked at most once per request, after validation,
\* limit injection and placeholder translation in that order, never for a
\* statement the validator must reject, and only with a statement that begins
\* with SELECT and holds no listed token
C3_ExecuteOnceAfterPipeline ==
    /\ Len(dbSql) <= 1
    /\ Cardinality({i \in 1..Len(calls) : calls[i] = "request.query"}) = Len(dbSql)
    /\ IsPrefixOf(calls, PipelineOrder)
    /\ dbSql # <<>> =>
          /\ calls = PipelineOrder
          /\ BeginsWithSelectKeyword(Trim(body.sql.s))
          /\ ~ContainsListedToken(body.sql.s)
          /\ BeginsWithSelectKeyword(dbSql[1])
          /\ ~ContainsListedToken(dbSql[1])

\* a request answered with rows after exactly one execution
C3_Witness ==
    /\ pc = "done"
    /\ response.status = 200
    /\ response.row_count > 0
    /\ Len(dbSql) = 1
    /\ calls = PipelineOrder

\* number of ( minus number of ) before index i
Depth(s, i) ==
    Cardinality({j \in 1..(i - 1) : s[j] = "("}) - Cardinality({j \in 1..(i - 1) : s[j] = ")"})

\* the TOP keywords of s that stand outside every parenthesis
TopLevelTops(s) == {i \in 1..Len(s) : WholeWordAt(s, i, kwTop) /\ Depth(s, i) = 0}

\* C4: every statement handed to the database holds exactly one top-level TOP
\* clause, also when a subquery has its own TOP or DISTINCT follows SELECT
\* (stated for the requests whose own text has no top-level TOP, where the
\* clause has to be inserted)
C4_ExactlyOneTopLevelTop ==
    \A i \in 1..Len(dbSql) :
        TopLevelTops(body.sql.s) = {} => Cardinality(TopLevelTops(dbSql[i])) = 1

InRange(n) == ~n.nan /\ RowLimitMin <= n.v /\ n.v <= RowLimitMax

Clamp(i) == IF i < RowLimitMin THEN RowLimitMin ELSE IF i > RowLimitMax THEN RowLimitMax ELSE i

ReachedInjection == \E i \in 1..Len(calls) : calls[i] = "injectTopLimit"

\* C5: whatever row_limit holds, the effective limit of a request that reaches
\* limit injection is an integer in [1, 5000], and it is the clamped default
\* when row_limit is omitted
C5_EffectiveLimitInRange ==
    ReachedInjection =>
        /\ InRange(limit)
        /\ body.row_limit = JsUndefined => limit = Num(Clamp(rowLimitDefault.v))

\* C6: the row_count of a successful response is at most the effective limit,
\* also when the statement carries its own TOP
C6_RowCountWithinLimit ==
    (response.status = 200 /\ InRange(limit)) => response.row_count <= limit.v

\* the statement the claim describes: TOP(limit) and a space after the leading
\* SELECT keyword and the white space that follows it, ':' of every
\* ':identifier' turned into '@'
RECURSIVE SpacesFrom(_, _)
SpacesFrom(s, i) == IF i <= Len(s) /\ s[i] \in SpaceChars THEN 1 + SpacesFrom(s, i + 1) ELSE 0

ExpectedSql(t, n) ==
    LET k    == 6 + SpacesFrom(t, 7)
        ins  == SubSeq(t, 1, k) \o <<"T","O","P","(">> \o IntToText(n) \o <<")"," ">> \o SubSeq(t, k + 1, Len(t))
    IN  [i \in 1..Len(ins) |-> IF PlaceholderAt(ins, i) THEN "@" ELSE ins[i]]

NoTopWord(t) == \A i \in 1..Len(t) : ~WholeWordAt(t, i, kwTop)

\* C8: for a validated statement without TOP, sql_used is the trimmed input with
\* 'TOP(limit) ' after the leading SELECT and every ':name' as '@name'; the
\* documented example executes with the one binding id = 42, typed Int
C8_ExecutedSqlShape ==
    /\ (response.status = 200 /\ NoTopWord(body.sql.s)) =>
          /\ InRange(limit)
          /\ response.sql_used = ExpectedSql(Trim(body.sql.s), limit.v)
          /\ dbSql = <<response.sql_used>>
    /\ ( /\ dbSql # <<>>
         /\ body.sql.s = <<"S","E","L","E","C","T"," ","*"," ","F","R","O","M"," ","S","a","l","e","s","L","T",".","C","u","s","t","o","m","e","r"," ","W","H","E","R","E"," ","C","u","s","t","o","m","e","r","I","D"," ","="," ",":","i","d">>
         /\ body.params.present
         /\ body.params.entries = <<[key |-> <<"i","d">>, val |-> JsNumber(420)]>>
         /\ body.row_limit = JsNumber(100) ) =>
          /\ dbSql = << <<"S","E","L","E","C","T"," ","T","O","P","(","1","0",")"," ","*"," ","F","R","O","M"," ","S","a","l","e","s","L","T",".","C","u","s","t","o","m","e","r"," ","W","H","E","R","E"," ","C","u","s","t","o","m","e","r","I","D"," ","="," ","@","i","d">> >>
          /\ bindings = <<[name |-> <<"i","d">>, type |-> "Int", value |-> JsNumber(420)]>>

\* the documented example, answered
C8_Witness ==
    /\ response.status = 200
    /\ body.row_limit = JsNumber(100)
    /\ body.sql.s = <<"S","E","L","E","C","T"," ","*"," ","F","R","O","M"," ","S","a","l","e","s","L","T",".","C","u","s","t","o","m","e","r"," ","W","H","E","R","E"," ","C","u","s","t","o","m","e","r","I","D"," ","="," ",":","i","d">>
    /\ response.sql_used = <<"S","E","L","E","C","T"," ","T","O","P","(","1","0",")"," ","*"," ","F","R","O","M"," ","S","a","l","e","s","L","T",".","C","u","s","t","o","m","e","r"," ","W","H","E","R","E"," ","C","u","s","t","o","m","e","r","I","D"," ","="," ","@","i","d">>
    /\ Len(bindings) = 1


(***************************************************************************)
(* db.js: getPool under concurrent callers.  Each caller runs getPool      *)
(* once; a caller is suspended at `await credential.getToken(...)` and     *)
(* where its own caller awaits the returned promise.                       *)
(***************************************************************************)
MaxCallers == 3

Callers == 1..MaxCallers

\* the handler variables other than poolPromise
handlerRest == <<pc, body, rowLimitDefault, limit, sqlText, calls, bindings, dbSql,
                 rowCount, response, log>>

\* the state of the promise that the module variable poolPromise holds
PromiseState(ps, idx) == IF idx = 0 THEN "undefined" ELSE ps[idx].st

InitPool ==
    /\ FnIdle
    /\ HandlerOff
    /\ SchemaOff
    /\ gpDev \in BOOLEAN
    /\ gpPc = [c \in Callers |-> "idle"]
    /\ gpAwait = [c \in Callers |-> 0]
    /\ gpGot = [c \in Callers |-> 0]
    /\ pools = <<>>
    /\ poolIdx = 0

\* sql.connect(connStr), or new sql.ConnectionPool(config).connect().catch(...)
OpenPool(c, mi) ==
    /\ pools' = Append(pools, [st |-> "pending", mi |-> mi])
    /\ poolIdx' = Len(pools) + 1
    /\ gpAwait' = [gpAwait EXCEPT ![c] = Len(pools) + 1]
    /\ gpPc' = [gpPc EXCEPT ![c] = "awaitPool"]

\* getPool from its entry to its first suspension or its return
GetPoolEnter(c) ==
    /\ gpPc[c] = "idle"
    /\ IF poolIdx # 0
       THEN /\ gpAwait' = [gpAwait EXCEPT ![c] = poolIdx]
            /\ gpPc' = [gpPc EXCEPT ![c] = "awaitPool"]
            /\ UNCHANGED <<pools, poolIdx>>
       ELSE IF gpDev
       THEN OpenPool(c, FALSE)
       ELSE /\ gpPc' = [gpPc EXCEPT ![c] = "awaitToken"]
            /\ UNCHANGED <<gpAwait, pools, poolIdx>>
    /\ poolPromise' = PromiseState(pools', poolIdx')
    /\ UNCHANGED <<fnVars, handlerRest, schemaVars, gpDev, gpGot>>

\* credential.getToken settles and getPool resumes
GetPoolToken(c) ==
    /\ gpPc[c] = "awaitToken"
    /\ \/ OpenPool(c, TRUE)
       \/ /\ gpPc' = [gpPc EXCEPT ![c] = "failed"]
          /\ UNCHANGED <<gpAwait, pools, poolIdx>>
    /\ poolPromise' = PromiseState(pools', poolIdx')
    /\ UNCHANGED <<fnVars, handlerRest, schemaVars, gpDev, gpGot>>

\* a connection attempt settles; the managed-identity path's catch handler
\* clears poolPromise
ConnectSettles(i) ==
    /\ pools[i].st = "pending"
    /\ \/ /\ pools' = [pools EXCEPT ![i].st = "resolved"]
          /\ UNCHANGED poolIdx
       \/ /\ pools' = [pools EXCEPT ![i].st = "rejected"]
          /\ poolIdx' = IF pools[i].mi THEN 0 ELSE poolIdx
    /\ poolPromise' = PromiseState(pools', poolIdx')
    /\ UNCHANGED <<fnVars, handlerRest, schemaVars, gpDev, gpPc, gpAwait, gpGot>>

\* the caller of getPool resumes with the pool, or with the rejection
GetPoolReturn(c) ==
    /\ gpPc[c] = "awaitPool"
    /\ pools[gpAwait[c]].st # "pending"
    /\ IF pools[gpAwait[c]].st = "resolved"
       THEN /\ gpGot' = [gpGot EXCEPT ![c] = gpAwait[c]]
            /\ gpPc' = [gpPc EXCEPT ![c] = "done"]
       ELSE /\ gpPc' = [gpPc EXCEPT ![c] = "failed"]
            /\ UNCHANGED gpGot
    /\ UNCHANGED <<fnVars, handlerVars, schemaVars, gpDev, gpAwait, pools, poolIdx>>

NextPool ==
    \/ \E c \in Callers : GetPoolEnter(c)
    \/ \E c \in Callers : GetPoolToken(c)
    \/ \E i \in 1..Len(pools) : ConnectSettles(i)
    \/ \E c \in Callers : GetPoolReturn(c)

SpecPool == InitPool /\ [][NextPool]_vars

\* the pools opened and not rejected
LivePools == {i \in 1..Len(pools) : pools[i].st # "rejected"}

\* C11: for every interleaving of concurrent getPool calls, at most one
\* connection pool is open (pending or established) and all callers that
\* received a handle received the same one
C11_SingleFlight ==
    /\ Cardinality(LivePools) <= 1
    /\ \A c, d \in Callers : (gpGot[c] # 0 /\ gpGot[d] # 0) => gpGot[c] = gpGot[d]


(***************************************************************************)
(* sqlSchema.js: string operations of the handler and the semantics of the *)
(* catalog queries it sends.  The database compares names under its        *)
(* default case-insensitive collation.                                     *)
(***************************************************************************)
\* s.indexOf(c, from), 1-based; 0 when there is none
RECURSIVE IndexOfChar(_, _, _)
IndexOfChar(s, c, i) ==
    IF i > Len(s) THEN 0
    ELSE IF s[i] = c THEN i
    ELSE IndexOfChar(s, c, i + 1)

\* the pieces of s from index i on, for s.split(c) with a one-character c
RECURSIVE SplitFrom(_, _, _)
SplitFrom(s, c, i) ==
    LET j == IndexOfChar(s, c, i)
    IN  IF j = 0 THEN << SubSeq(s, i, Len(s)) >>
        ELSE << SubSeq(s, i, j - 1) >> \o SplitFrom(s, c, j + 1)

\* s.split(c)
Split(s, c) == SplitFrom(s, c, 1)

\* s.includes(w)
Includes(s, w) == \E i \in 1..(Len(s) + 1) : MatchAt(s, i, w)

\* parts.join(sep)
RECURSIVE Join(_, _)
Join(parts, sep) ==
    IF parts = <<>> THEN <<>>
    ELSE IF Len(parts) = 1 THEN parts[1]
    ELSE parts[1] \o sep \o Join(Tail(parts), sep)

\* list.filter(keep), keep given as the set of values kept
RECURSIVE FilterSeq(_, _)
FilterSeq(list, keep) ==
    IF list = <<>> THEN <<>>
    ELSE (IF Head(list) \in keep THEN <<Head(list)>> ELSE <<>>) \o FilterSeq(Tail(list), keep)

\* envText.split(',').map(s => s.trim()).filter(Boolean)
ParseList(envText) ==
    LET parts == Split(envText, ",")
        trimmed == [i \in 1..Len(parts) |-> Trim(parts[i])]
    IN  FilterSeq(trimmed, {trimmed[i] : i \in 1..Len(trimmed)} \ {<<>>})

\* process.env.NAME || dflt
EnvOr(v, dflt) == IF v = <<>> THEN dflt ELSE v

\* a = b under the database collation
DbEq(a, b) == LowerText(a) = LowerText(b)

\* s LIKE p from positions i and j on: % is any run of characters, _ any one
RECURSIVE LikeAt(_, _, _, _)
LikeAt(s, i, p, j) ==
    IF j > Len(p) THEN i > Len(s)
    ELSE IF p[j] = "%" THEN \E k \in i..(Len(s) + 1) : LikeAt(s, k, p, j + 1)
    ELSE /\ i <= Len(s)
         /\ p[j] = "_" \/ ToLower(p[j]) = ToLower(s[i])
         /\ LikeAt(s, i + 1, p, j + 1)

\* s LIKE p
Like(s, p) == LikeAt(s, 1, p, 1)

\* `col = @param`: a parameter bound without a value is NULL and equals nothing
EqParam(col, v) == v.k = "string" /\ DbEq(col, v.s)

\* `col LIKE @param`
LikeParam(col, v) == v.k = "string" /\ Like(col, v.s)

\* the collation's order of characters
CharOrder == Digits \o <<"_">> \o LowerLetters

CharRank(c) ==
    LET l == ToLower(c)
    IN  IF \E i \in 1..Len(CharOrder) : CharOrder[i] = l
        THEN CHOOSE i \in 1..Len(CharOrder) : CharOrder[i] = l
        ELSE 0

\* a < b in the ORDER BY of the database
RECURSIVE TextLess(_, _)
TextLess(a, b) ==
    IF b = <<>> THEN FALSE
    ELSE IF a = <<>> THEN TRUE
    ELSE IF CharRank(Head(a)) # CharRank(Head(b)) THEN CharRank(Head(a)) < CharRank(Head(b))
    ELSE TextLess(Tail(a), Tail(b))

\* ORDER BY over keys <<text, text, number>>
KeyLess(k, l) ==
    \/ TextLess(k[1], l[1])
    \/ DbEq(k[1], l[1]) /\ TextLess(k[2], l[2])
    \/ DbEq(k[1], l[1]) /\ DbEq(k[2], l[2]) /\ k[3] < l[3]

\* the rows of S in the order of their keys
RECURSIVE SortByKey(_, _)
SortByKey(S, key) ==
    IF S = {} THEN <<>>
    ELSE LET m == CHOOSE x \in S : \A y \in S : ~KeyLess(key[y], key[x])
         IN  <<m>> \o SortByKey(S \ {m}, key)

\* the orders in which a query without ORDER BY may return the rows of S
Orders(S) ==
    {f \in [1..Cardinality(S) -> S] : \A i, j \in 1..Cardinality(S) : i # j => f[i] # f[j]}

\* SELECT TABLE_SCHEMA, TABLE_NAME FROM INFORMATION_SCHEMA.VIEWS WHERE TABLE_NAME LIKE @vwPattern
QueryViews(d, vwPattern) ==
    Orders({[schema |-> o.schema, name |-> o.name] :
              o \in {x \in d.objs : x.type = "V" /\ Like(x.name, vwPattern)}})

\* ... FROM INFORMATION_SCHEMA.TABLES t WHERE t.TABLE_TYPE='BASE TABLE' AND (ors);
\* ps[i] holds @s<i>, @n<i> and whether the i-th disjunct uses LIKE
QueryTables(d, ps) ==
    Orders({[schema |-> o.schema, name |-> o.name] :
              o \in {x \in d.objs :
                        /\ x.type = "U"
                        /\ \E i \in 1..Len(ps) :
                              /\ EqParam(x.schema, ps[i].s)
                              /\ IF ps[i].like THEN LikeParam(x.name, ps[i].n)
                                 ELSE EqParam(x.name, ps[i].n)}})

\* ... FROM sys.objects o JOIN sys.schemas s ... WHERE (typePreds) AND o.is_ms_shipped = 0
\* [AND s.name NOT IN (@xs...)] ORDER BY s.name, o.name
QueryScan(d, types, xs) ==
    LET rows == {[schema_name |-> o.schema, object_name |-> o.name, type |-> o.type] :
                   o \in {x \in d.objs :
                             /\ x.type \in types
                             /\ ~x.shipped
                             /\ \A i \in 1..Len(xs) : ~DbEq(x.schema, xs[i])}}
    IN  SortByKey(rows, [r \in rows |-> <<r.schema_name, r.object_name, 0>>])

\* ... FROM INFORMATION_SCHEMA.COLUMNS WHERE (TABLE_SCHEMA + '.' + TABLE_NAME) = @q<i> OR ...
\* ORDER BY TABLE_SCHEMA, TABLE_NAME, ORDINAL_POSITION
QueryColumns(d, qs) ==
    LET rows == {c \in d.cols :
                   \E i \in 1..Len(qs) : DbEq(c.schema \o <<".">> \o c.name, qs[i])}
    IN  SortByKey(rows, [r \in rows |-> <<r.schema, r.name, r.ord>>])

\* primary-key columns of sys.tables rows with (s.name=@ps<i> AND t.name=@pn<i>);
\* the rows are folded into one Set per table, so their order is immaterial
QueryPk(d, ps) ==
    LET rows == {k \in d.pks :
                   \E i \in 1..Len(ps) : EqParam(k.schema, ps[i].s) /\ EqParam(k.name, ps[i].n)}
    IN  SortByKey(rows, [r \in rows |-> <<r.schema, r.name \o <<".">> \o r.col, 0>>])

\* foreign-key column pairs whose owning table has (sp.name=@fs<i> AND tp.name=@fn<i>)
QueryFk(d, ps) ==
    Orders({f \in d.fks :
              \E i \in 1..Len(ps) : EqParam(f.ps, ps[i].s) /\ EqParam(f.pt, ps[i].n)})


(***************************************************************************)
(* schemaHelpers.js                                                        *)
(***************************************************************************)
\* getTableDescription(tableName)
getTableDescription(tableName) ==
    IF tableName = <<"v","w","U","s","e","r","s">> THEN "User accounts with registration dates and basic info"
    ELSE IF tableName = <<"v","w","O","r","d","e","r","s">> THEN "Customer orders with amounts and statuses"
    ELSE IF tableName = <<"v","w","P","r","o","d","u","c","t","s">> THEN "Product catalog with pricing and categories"
    ELSE ""

\* getColumnDescription(tableName, columnName)
getColumnDescription(tableName, columnName) ==
    IF tableName # <<"v","w","U","s","e","r","s">> THEN ""
    ELSE IF columnName = <<"U","s","e","r","I","d">> THEN "Unique identifier for each user"
    ELSE IF columnName = <<"C","r","e","a","t","e","d","A","t">> THEN "UTC timestamp when user registered"
    ELSE IF columnName = <<"C","o","u","n","t","r","y">> THEN "User country code (ISO 2-letter)"
    ELSE IF columnName = <<"I","s","A","c","t","i","v","e">> THEN "Whether user account is active"
    ELSE ""

\* getCommonQueryTemplates()
getCommonQueryTemplates ==
    << [description |-> "Row count for a table",
        template |-> "SELECT COUNT(*) AS total FROM <schema.table>"],
       [description |-> "Preview rows",
        template |-> "SELECT TOP(:limit) * FROM <schema.table> ORDER BY 1"],
       [description |-> "Count by a column",
        template |-> "SELECT <column>, COUNT(*) AS cnt FROM <schema.table> GROUP BY <column> ORDER BY cnt DESC"] >>

\* fks.slice(0, 2) keeps at most this many edges
SampleJoinMax == 2

\* the template of one edge
SampleJoin(tableName, fk) ==
    LET refTableWithSchema ==
            IF Includes(fk.ref_table, <<".">>) THEN fk.ref_table
            ELSE <<"S","a","l","e","s","L","T",".">> \o fk.ref_table
    IN  [description |-> <<"J","o","i","n"," ">> \o tableName \o <<" ","w","i","t","h"," ">> \o refTableWithSchema,
         template |-> <<"S","E","L","E","C","T"," ","t","1",".","*",","," ","t","2",".","*"," ","F","R","O","M"," ">> \o tableName \o <<" ","t","1"," ","I","N","N","E","R"," ","J","O","I","N"," ">>
                        \o refTableWithSchema \o <<" ","t","2"," ","O","N"," ","t","1",".">> \o fk.column
                        \o <<" ","="," ","t","2",".">> \o fk.ref_column]

\* getSampleJoins(tableName, fks) without the cap of slice(0, 2)
getSampleJoins_NoCap(tableName, fks) ==
    IF ~fks.defined \/ Len(fks.items) = 0 THEN <<>>
    ELSE [i \in 1..Len(fks.items) |-> SampleJoin(tableName, fks.items[i])]

\* getSampleJoins(tableName, fks); fks is [defined, items], undefined when
\* the table has no entry in fkMap
getSampleJoins(tableName, fks) ==
    IF ~fks.defined \/ Len(fks.items) = 0 THEN <<>>
    ELSE LET first == SubSeq(fks.items, 1,
                             IF Len(fks.items) < SampleJoinMax THEN Len(fks.items)
                             ELSE SampleJoinMax)
         IN  [i \in 1..Len(first) |-> SampleJoin(tableName, first[i])]

(***************************************************************************)
(* sqlSchema.js: module constants and the sql-schema handler.              *)
(***************************************************************************)
VIEW_WHITELIST == EnvOr(senv.SCHEMA_WHITELIST, <<"v","w","%">>)

OBJECT_TYPES_DEFAULT == LowerText(EnvOr(senv.SCHEMA_OBJECT_TYPES, <<"b","o","t","h">>))

OBJECT_ALLOWLIST == ParseList(senv.OBJECT_ALLOWLIST)

INCLUDE_TYPES == LowerText(EnvOr(senv.SCHEMA_INCLUDE_TYPES, <<"t","a","b","l","e","s",",","v","i","e","w","s">>))

EXCLUDE_SCHEMAS == ParseList(EnvOr(senv.SCHEMA_EXCLUDE_SCHEMAS, <<"s","y","s",",","I","N","F","O","R","M","A","T","I","O","N","_","S","C","H","E","M","A",",","c","d","c">>))

mViews == <<"v","i","e","w","s">>

mTables == <<"t","a","b","l","e","s">>

mBoth == <<"b","o","t","h">>

\* body.tables that is not an array
NotArray == [isArray |-> FALSE, items |-> <<>>]

\* req.method === 'POST' ? req.json().catch(() => ({})) : {}
SchemaBody ==
    IF sreq.method = "POST" /\ sreq.bodyOk
    THEN [object_types |-> sreq.object_types, tables |-> sreq.tables]
    ELSE [object_types |-> JsUndefined, tables |-> NotArray]

\* headerMode || body?.object_types || OBJECT_TYPES_DEFAULT
ModeValue ==
    IF Truthy(sreq.header) THEN sreq.header
    ELSE IF Truthy(SchemaBody.object_types) THEN SchemaBody.object_types
    ELSE JsString(OBJECT_TYPES_DEFAULT)

ErrToLowerCase ==
    "(intermediate value)(intermediate value)(intermediate value).toLowerCase is not a function"

ErrSplit == "qn.split is not a function"

\* Array.isArray(body?.tables) ? body.tables : null
clientFilter == SchemaBody.tables

\* clientFilter?.length
ClientLength == IF clientFilter.isArray THEN Len(clientFilter.items) ELSE 0

\* clientFilter?.length ? clientFilter : OBJECT_ALLOWLIST
Allow ==
    IF ClientLength > 0 THEN clientFilter.items
    ELSE [i \in 1..Len(OBJECT_ALLOWLIST) |-> JsString(OBJECT_ALLOWLIST[i])]

\* const [sch, nm] = qn.split('.') and the two inputs and the disjunct made of them
AllowParam(qn) ==
    LET parts == Split(qn.s, ".")
        nm == IF Len(parts) >= 2 THEN JsString(parts[2]) ELSE JsUndefined
    IN  [s |-> JsString(parts[1]),
         n |-> IF nm = JsString(<<"*">>) THEN JsString(<<"%">>) ELSE nm,
         like |-> nm = JsString(<<"*">>)]

\* every entry taken as its schema alone
AllowParams_SchemaOnly(list) ==
    [i \in 1..Len(list) |->
       [AllowParam(list[i]) EXCEPT !.like = TRUE, !.n = JsString(<<"%">>)]]

AllowParams(list) == [i \in 1..Len(list) |-> AllowParam(list[i])]

\* objects.map(o => `${o.schema}.${o.name}`)
QNames(objs) == [i \in 1..Len(objs) |-> objs[i].schema \o <<".">> \o objs[i].name]

\* const [s, n] = qn.split('.') and the two inputs made of them
PairParam(qn) ==
    LET parts == Split(qn, ".")
    IN  [s |-> JsString(parts[1]),
         n |-> IF Len(parts) >= 2 THEN JsString(parts[2]) ELSE JsUndefined]

PairParams(qs) == [i \in 1..Len(qs) |-> PairParam(qs[i])]

\* the o.type values of typePreds
TypePreds ==
    (IF Includes(INCLUDE_TYPES, mTables) THEN {"U"} ELSE {})
        \cup (IF Includes(INCLUDE_TYPES, mViews) THEN {"V"} ELSE {})

\* `Mode=${mode}; views LIKE ${VIEW_WHITELIST}; tables from allow-list`
ScopedNotes(m) ==
    <<"M","o","d","e","=">> \o m \o <<";"," ","v","i","e","w","s"," ","L","I","K","E"," ">> \o VIEW_WHITELIST \o <<";"," ","t","a","b","l","e","s"," ","f","r","o","m"," ","a","l","l","o","w","-","l","i","s","t">>

\* `Included: ${INCLUDE_TYPES}; Excluded schemas: ${EXCLUDE_SCHEMAS.join(',')}`
FallbackNotes ==
    <<"I","n","c","l","u","d","e","d",":"," ">> \o INCLUDE_TYPES \o <<";"," ","E","x","c","l","u","d","e","d"," ","s","c","h","e","m","a","s",":"," ">> \o Join(EXCLUDE_SCHEMAS, <<",">>)

NoSchemaResponse == [status |-> 0, error |-> "", tables |-> <<>>, notes |-> <<>>]

\* the response for an empty `objects`
EmptyCatalog(m) ==
    [status |-> 200, error |-> "", tables |-> <<>>, notes |-> ScopedNotes(m),
     common_queries |-> getCommonQueryTemplates]

\* rows of a recordset that satisfy keep, in recordset order
RowsWhere(rs, keep) == FilterSeq(rs, {rs[i] : i \in 1..Len(rs)} \cap keep)

\* fkMap[qn]
FkMapAt(fkRows, qn) ==
    LET mine == RowsWhere(fkRows, {r \in {fkRows[i] : i \in 1..Len(fkRows)} :
                                      r.ps \o <<".">> \o r.pt = qn})
    IN  [defined |-> mine # <<>>,
         items |-> [i \in 1..Len(mine) |->
                      [column |-> mine[i].pc,
                       ref_table |-> mine[i].rs \o <<".">> \o mine[i].rt,
                       ref_column |-> mine[i].rc]]]

\* pkMap[qn]?.has(c) || false
PkHas(pkRows, qn, c) ==
    \E i \in 1..Len(pkRows) :
        pkRows[i].schema \o <<".">> \o pkRows[i].name = qn /\ pkRows[i].col = c

\* one element of `tables`
TableEntry(qn, r) ==
    LET bare == Split(qn, ".")[2]
        mine == RowsWhere(r.columns, {c \in {r.columns[i] : i \in 1..Len(r.columns)} :
                                         c.schema \o <<".">> \o c.name = qn})
        fks  == FkMapAt(r.fk, qn)
    IN  [name |-> qn,
         description |-> getTableDescription(bare),
         columns |-> [i \in 1..Len(mine) |->
                        [name |-> mine[i].col, type |-> mine[i].type,
                         nullable |-> mine[i].nullable = "YES",
                         max_len |-> mine[i].maxlen,   \* 0: the key is absent
                         pk |-> PkHas(r.pk, qn, mine[i].col),
                         description |-> getColumnDescription(bare, mine[i].col)]],
         fks |-> fks.items,
         sample_joins |-> getSampleJoins(qn, fks)]

\* the keys of colMap, in order of first appearance
RECURSIVE ColumnOwners(_)
ColumnOwners(rows) ==
    IF rows = <<>> THEN <<>>
    ELSE LET rest == ColumnOwners(SubSeq(rows, 1, Len(rows) - 1))
             qn   == rows[Len(rows)].schema \o <<".">> \o rows[Len(rows)].name
         IN  IF \E i \in 1..Len(rest) : rest[i] = qn THEN rest ELSE Append(rest, qn)

\* the tables list built from the relations that have columns
Catalog_FromColumns(objs, r, fb, m) ==
    LET qnames == ColumnOwners(r.columns)
    IN  [status |-> 200, error |-> "",
         tables |-> [i \in 1..Len(qnames) |-> TableEntry(qnames[i], r)],
         notes |-> IF fb THEN FallbackNotes ELSE ScopedNotes(m),
         common_queries |-> getCommonQueryTemplates]

\* the response for a non-empty `objects`
Catalog(objs, r, fb, m) ==
    LET qnames == QNames(objs)
    IN  [status |-> 200, error |-> "",
         tables |-> [i \in 1..Len(qnames) |-> TableEntry(qnames[i], r)],
         notes |-> IF fb THEN FallbackNotes ELSE ScopedNotes(m),
         common_queries |-> getCommonQueryTemplates]


(***************************************************************************)
(* Requests, configurations and databases the sql-schema handler is run on.*)
(***************************************************************************)
Obj(s, n, ty, shipped) == [schema |-> s, name |-> n, type |-> ty, shipped |-> shipped]

Col(s, n, c, ord, ty, nullable, maxlen) ==
    [schema |-> s, name |-> n, col |-> c, ord |-> ord, type |-> ty,
     nullable |-> nullable, maxlen |-> maxlen]

Fk(s, t, c, rs, rt, rc) == [ps |-> s, pt |-> t, pc |-> c, rs |-> rs, rt |-> rt, rc |-> rc]

\* a sample database: three related tables, a view the default pattern
\* matches and one it does not, a change-capture table, an engine-shipped table
DbSales ==
    [name |-> "sales",
     objs |-> { Obj(<<"S","a","l","e","s","L","T">>, <<"C","u","s","t","o","m","e","r">>, "U", FALSE),
                Obj(<<"S","a","l","e","s","L","T">>, <<"A","d","d","r","e","s","s">>, "U", FALSE),
                Obj(<<"S","a","l","e","s","L","T">>, <<"S","a","l","e","s","O","r","d","e","r","H","e","a","d","e","r">>, "U", FALSE),
                Obj(<<"d","b","o">>, <<"v","w","U","s","e","r","s">>, "V", FALSE),
                Obj(<<"d","b","o">>, <<"R","e","p","o","r","t">>, "V", FALSE),
                Obj(<<"c","d","c">>, <<"c","h","a","n","g","e","_","t","a","b","l","e","s">>, "U", FALSE),
                Obj(<<"d","b","o">>, <<"M","S","r","e","p","l","i","c","a","t","i","o","n","_","o","p","t","i","o","n","s">>, "U", TRUE) },
     cols |-> { Col(<<"S","a","l","e","s","L","T">>, <<"C","u","s","t","o","m","e","r">>, <<"C","u","s","t","o","m","e","r","I","D">>, 1, "int", "NO", 0),
                Col(<<"S","a","l","e","s","L","T">>, <<"C","u","s","t","o","m","e","r">>, <<"L","a","s","t","N","a","m","e">>, 2, "nvarchar", "YES", 50),
                Col(<<"S","a","l","e","s","L","T">>, <<"A","d","d","r","e","s","s">>, <<"A","d","d","r","e","s","s","I","D">>, 1, "int", "NO", 0),
                Col(<<"S","a","l","e","s","L","T">>, <<"S","a","l","e","s","O","r","d","e","r","H","e","a","d","e","r">>, <<"S","a","l","e","s","O","r","d","e","r","I","D">>, 1, "int", "NO", 0),
                Col(<<"S","a","l","e","s","L","T">>, <<"S","a","l","e","s","O","r","d","e","r","H","e","a","d","e","r">>, <<"C","u","s","t","o","m","e","r","I","D">>, 2, "int", "NO", 0),
                Col(<<"d","b","o">>, <<"v","w","U","s","e","r","s">>, <<"U","s","e","r","I","d">>, 1, "int", "NO", 0),
                Col(<<"d","b","o">>, <<"v","w","U","s","e","r","s">>, <<"C","o","u","n","t","r","y">>, 2, "nvarchar", "YES", 2) },
     pks  |-> { [schema |-> <<"S","a","l","e","s","L","T">>, name |-> <<"C","u","s","t","o","m","e","r">>, col |-> <<"C","u","s","t","o","m","e","r","I","D">>],
                [schema |-> <<"S","a","l","e","s","L","T">>, name |-> <<"A","d","d","r","e","s","s">>, col |-> <<"A","d","d","r","e","s","s","I","D">>],
                [schema |-> <<"S","a","l","e","s","L","T">>, name |-> <<"S","a","l","e","s","O","r","d","e","r","H","e","a","d","e","r">>, col |-> <<"S","a","l","e","s","O","r","d","e","r","I","D">>] },
     fks  |-> { Fk(<<"S","a","l","e","s","L","T">>, <<"S","a","l","e","s","O","r","d","e","r","H","e","a","d","e","r">>, <<"C","u","s","t","o","m","e","r","I","D">>,
                   <<"S","a","l","e","s","L","T">>, <<"C","u","s","t","o","m","e","r">>, <<"C","u","s","t","o","m","e","r","I","D">>),
                Fk(<<"S","a","l","e","s","L","T">>, <<"S","a","l","e","s","O","r","d","e","r","H","e","a","d","e","r">>, <<"B","i","l","l","T","o","A","d","d","r","e","s","s","I","D">>,
                   <<"S","a","l","e","s","L","T">>, <<"A","d","d","r","e","s","s">>, <<"A","d","d","r","e","s","s","I","D">>),
                Fk(<<"S","a","l","e","s","L","T">>, <<"S","a","l","e","s","O","r","d","e","r","H","e","a","d","e","r">>, <<"S","h","i","p","T","o","A","d","d","r","e","s","s","I","D">>,
                   <<"S","a","l","e","s","L","T">>, <<"A","d","d","r","e","s","s">>, <<"A","d","d","r","e","s","s","I","D">>) }]

\* a database with no view that the default pattern matches, and again a
\* change-capture table and an engine-shipped table
DbPlain ==
    [name |-> "plain",
     objs |-> { Obj(<<"S","a","l","e","s">>, <<"O","r","d","e","r","s">>, "U", FALSE),
                Obj(<<"S","a","l","e","s">>, <<"I","t","e","m","s">>, "U", FALSE),
                Obj(<<"S","a","l","e","s">>, <<"I","t","e","m","s",".","O","l","d">>, "U", FALSE),
                Obj(<<"S","a","l","e","s">>, <<"R","e","p","o","r","t">>, "V", FALSE),
                Obj(<<"c","d","c">>, <<"c","h","a","n","g","e","_","t","a","b","l","e","s">>, "U", FALSE),
                Obj(<<"d","b","o">>, <<"M","S","r","e","p","l","i","c","a","t","i","o","n","_","o","p","t","i","o","n","s">>, "U", TRUE) },
     cols |-> { Col(<<"S","a","l","e","s">>, <<"O","r","d","e","r","s">>, <<"O","r","d","e","r","I","D">>, 1, "int", "NO", 0),
                Col(<<"S","a","l","e","s">>, <<"I","t","e","m","s">>, <<"O","r","d","e","r","I","D">>, 2, "int", "NO", 0),
                Col(<<"S","a","l","e","s">>, <<"I","t","e","m","s">>, <<"I","t","e","m","I","D">>, 1, "int", "NO", 0),
                Col(<<"S","a","l","e","s">>, <<"I","t","e","m","s",".","O","l","d">>, <<"I","t","e","m","I","D">>, 1, "int", "NO", 0) },
     pks  |-> { [schema |-> <<"S","a","l","e","s">>, name |-> <<"O","r","d","e","r","s">>, col |-> <<"O","r","d","e","r","I","D">>],
                [schema |-> <<"S","a","l","e","s">>, name |-> <<"I","t","e","m","s",".","O","l","d">>, col |-> <<"I","t","e","m","I","D">>] },
     fks  |-> { Fk(<<"S","a","l","e","s">>, <<"I","t","e","m","s">>, <<"O","r","d","e","r","I","D">>, <<"S","a","l","e","s">>, <<"O","r","d","e","r","s">>, <<"O","r","d","e","r","I","D">>) }]

\* a database that holds no user object yet
DbFresh ==
    [name |-> "fresh",
     objs |-> { Obj(<<"c","d","c">>, <<"c","h","a","n","g","e","_","t","a","b","l","e","s">>, "U", FALSE),
                Obj(<<"d","b","o">>, <<"M","S","r","e","p","l","i","c","a","t","i","o","n","_","o","p","t","i","o","n","s">>, "U", TRUE) },
     cols |-> {},
     pks  |-> {},
     fks  |-> {}]

Databases == { DbSales, DbPlain, DbFresh }

\* process.env as the module reads it; <<>> is an unset variable
SchemaEnv(whitelist, types, allow, include, exclude) ==
    [SCHEMA_WHITELIST |-> whitelist, SCHEMA_OBJECT_TYPES |-> types,
     OBJECT_ALLOWLIST |-> allow, SCHEMA_INCLUDE_TYPES |-> include,
     SCHEMA_EXCLUDE_SCHEMAS |-> exclude]

SchemaEnvs ==
    { SchemaEnv(<<>>, <<>>, <<>>, <<>>, <<>>),
      SchemaEnv(<<>>, <<"T","a","b","l","e","s">>, <<"S","a","l","e","s","L","T",".","C","u","s","t","o","m","e","r",","," ","S","a","l","e","s","L","T",".","A","d","d","r","e","s","s",",">>, <<>>, <<>>),
      SchemaEnv(<<"r","e","p","%">>, <<>>, <<>>, <<"V","i","e","w","s">>, <<"S","a","l","e","s","L","T">>),
      SchemaEnv(<<>>, <<>>, <<"N","o","p","e",".","*">>, <<>>, <<>>) }

Strs(texts) == [i \in 1..Len(texts) |-> JsString(texts[i])]

\* values of body.object_types
ReqObjectTypes ==
    { JsUndefined, JsString(mTables), JsString(mViews), JsString(<<"B","o","t","h">>),
      JsString(<<"a","l","l">>), JsNumber(50) }

\* values of body.tables
ReqTables ==
    { NotArray,
      [isArray |-> TRUE, items |-> <<>>],
      [isArray |-> TRUE, items |-> Strs(<< <<"S","a","l","e","s","L","T",".","C","u","s","t","o","m","e","r">> >>)],
      [isArray |-> TRUE, items |-> Strs(<< <<"S","a","l","e","s","L","T",".","*">> >>)],
      [isArray |-> TRUE, items |-> Strs(<< <<"S","a","l","e","s","L","T",".","*">>, <<"S","a","l","e","s","L","T",".","C","u","s","t","o","m","e","r">> >>)],
      [isArray |-> TRUE, items |-> Strs(<< <<"s","a","l","e","s",".","o","r","d","e","r","s">>, <<"s","a","l","e","s",".","o","r","d","e","r","s">> >>)],
      [isArray |-> TRUE, items |-> Strs(<< <<"N","o","p","e",".","M","i","s","s","i","n","g">> >>)],
      [isArray |-> TRUE, items |-> Strs(<< <<"C","u","s","t","o","m","e","r">>, <<"S","a","l","e","s","L","T",".","A","d","d","r","e","s","s">> >>)],
      [isArray |-> TRUE, items |-> Strs(<< <<"N","o","p","e",".","M","i","s","s","i","n","g">>, <<"S","a","l","e","s",".","I","t","e","m","s">> >>)],
      [isArray |-> TRUE, items |-> << JsNumber(50), JsString(<<"S","a","l","e","s","L","T",".","C","u","s","t","o","m","e","r">>) >>] }

SchemaReq(method, header, bodyOk, types, tables) ==
    [method |-> method, header |-> header, bodyOk |-> bodyOk,
     object_types |-> types, tables |-> tables]

SchemaReqs ==
    { SchemaReq("GET", h, TRUE, JsUndefined, NotArray) :
        h \in { JsUndefined, JsString(mTables), JsString(<<"V","I","E","W","S">>) } }
      \cup { SchemaReq("POST", JsUndefined, TRUE, ty, tb) :
               ty \in ReqObjectTypes, tb \in ReqTables }
      \cup { SchemaReq("POST", JsUndefined, FALSE, JsUndefined, NotArray),
             SchemaReq("POST", JsString(mTables), TRUE, JsString(mViews), NotArray) }


(***************************************************************************)
(* The sql-schema handler.  Each action runs the handler from one await    *)
(* to the next; the same request is then served a second time (round       *)
(* "repeat") against the unchanged database.                               *)
(***************************************************************************)
NoRecs == [columns |-> <<>>, pk |-> <<>>, fk |-> <<>>]

InitSchema ==
    /\ FnIdle
    /\ QueryOff
    /\ PoolOff
    /\ poolPromise \in {"undefined", "resolved"}
    /\ spc = "start"
    /\ sreq \in SchemaReqs
    /\ senv \in SchemaEnvs
    /\ db \in Databases
    /\ mode = <<>>
    /\ objects = <<>>
    /\ usingCatalogFallback = FALSE
    /\ scalls = <<>>
    /\ recs = NoRecs
    /\ sresp = NoSchemaResponse
    /\ slog = <<>>
    /\ round = "first"
    /\ firstNames = <<>>

\* what no sql-schema action changes
schemaFixed == <<fnVars, handlerRest, poolVars, sreq, senv, db, round, firstNames>>

\* the handler sends query q and suspends
Issue(q, params, objs, fb) ==
    /\ spc' = q
    /\ scalls' = Append(scalls, [q |-> q, params |-> params])
    /\ objects' = objs
    /\ usingCatalogFallback' = fb
    /\ UNCHANGED <<sresp, slog>>

\* the handler returns resp
Return(resp, objs, fb) ==
    /\ spc' = "done"
    /\ sresp' = resp
    /\ objects' = objs
    /\ usingCatalogFallback' = fb
    /\ UNCHANGED <<scalls, slog>>

SchemaFail_GenericMessage(msg, objs, fb) ==
    /\ spc' = "done"
    /\ slog' = Append(slog, msg)
    /\ sresp' = [status |-> 500, error |-> "Internal Server Error", tables |-> <<>>,
                 notes |-> <<>>]
    /\ objects' = objs
    /\ usingCatalogFallback' = fb
    /\ UNCHANGED scalls

\* the catch block of the handler
SchemaFail(msg, objs, fb) ==
    /\ spc' = "done"
    /\ slog' = Append(slog, msg)
    /\ sresp' = [status |-> 500, error |-> msg, tables |-> <<>>, notes |-> <<>>]
    /\ objects' = objs
    /\ usingCatalogFallback' = fb
    /\ UNCHANGED scalls

\* from `if (objects.length === 0)` to the columns query
StepColumns(objs, fb) ==
    IF Len(objs) = 0
    THEN Return(EmptyCatalog(mode), objs, fb)
    ELSE Issue("columns", QNames(objs), objs, fb)

\* the catalog-fallback step sends its scan whatever `objects` holds
StepScan_Always(objs) ==
    IF mode \in {mTables, mBoth, mViews}
    THEN Issue("scan", [types |-> TypePreds, xs |-> EXCLUDE_SCHEMAS], objs, FALSE)
    ELSE StepColumns(objs, FALSE)

\* the catalog-fallback step up to its query
StepScan(objs) ==
    IF mode \in {mTables, mBoth, mViews} /\ Len(objs) = 0
    THEN Issue("scan", [types |-> TypePreds, xs |-> EXCLUDE_SCHEMAS], objs, FALSE)
    ELSE StepColumns(objs, FALSE)

\* the allow-list step up to its query
StepTables(objs) ==
    IF mode \in {mTables, mBoth} /\ (Len(OBJECT_ALLOWLIST) > 0 \/ ClientLength > 0)
    THEN IF \E i \in 1..Len(Allow) : TypeOf(Allow[i]) # "string"
         THEN SchemaFail(ErrSplit, objs, FALSE)
         ELSE Issue("tables", AllowParams(Allow), objs, FALSE)
    ELSE StepScan(objs)

\* the view step up to its query
StepViews ==
    IF mode \in {mViews, mBoth}
    THEN Issue("views", VIEW_WHITELIST, <<>>, FALSE)
    ELSE StepTables(<<>>)

\* the synchronous part of getPool, entered from the sql-schema handler
SchemaEnterGetPool(dev) ==
    IF poolPromise # "undefined"
    THEN spc' = "awaitCached" /\ UNCHANGED poolPromise
    ELSE IF dev
    THEN spc' = "awaitConnectDev" /\ poolPromise' = "pending"
    ELSE spc' = "awaitToken" /\ UNCHANGED poolPromise

\* the handler from its entry to `await getPool()`
SchemaStart ==
    /\ spc = "start"
    /\ UNCHANGED <<schemaFixed, recs>>
    /\ IF TypeOf(ModeValue) # "string"
       THEN /\ SchemaFail(ErrToLowerCase, <<>>, FALSE)
            /\ UNCHANGED <<mode, poolPromise>>
       ELSE /\ mode' = LowerText(ModeValue.s)
            /\ \E dev \in BOOLEAN : SchemaEnterGetPool(dev)
            /\ UNCHANGED <<objects, usingCatalogFallback, scalls, sresp, slog>>

\* credential.getToken settles
SchemaTokenSettles ==
    /\ spc = "awaitToken"
    /\ UNCHANGED <<schemaFixed, recs, mode>>
    /\ \/ /\ spc' = "awaitConnectMI"
          /\ poolPromise' = "pending"
          /\ UNCHANGED <<objects, usingCatalogFallback, scalls, sresp, slog>>
       \/ /\ SchemaFail("token acquisition failed", objects, FALSE)
          /\ UNCHANGED poolPromise

\* the connection attempt behind poolPromise settles, or a cached promise is
\* awaited; with the pool the handler runs on to its first query
SchemaPoolSettles ==
    /\ spc \in {"awaitConnectDev", "awaitConnectMI", "awaitCached"}
    /\ UNCHANGED <<schemaFixed, recs, mode>>
    /\ \/ /\ poolPromise \in {"pending", "resolved"}
          /\ poolPromise' = "resolved"
          /\ StepViews
       \/ /\ poolPromise \in {"pending", "rejected"}
          /\ poolPromise' = IF spc = "awaitConnectMI" THEN "undefined" ELSE "rejected"
          /\ SchemaFail("connection failed", objects, FALSE)

\* r.recordset.forEach(v => objects.push({ ..., type: 'VIEW' }))
PushViews(objs, rs) ==
    objs \o [i \in 1..Len(rs) |-> [schema |-> rs[i].schema, name |-> rs[i].name, type |-> "VIEW"]]

\* r.recordset.forEach(t => objects.push({ ..., type: 'TABLE' }))
PushTables(objs, rs) ==
    objs \o [i \in 1..Len(rs) |-> [schema |-> rs[i].schema, name |-> rs[i].name, type |-> "TABLE"]]

\* r.recordset.forEach(row => objects.push({ ..., type: kind }))
PushScanned(objs, rs) ==
    objs \o [i \in 1..Len(rs) |->
               [schema |-> rs[i].schema_name, name |-> rs[i].object_name,
                type |-> IF rs[i].type = "U" THEN "TABLE" ELSE "VIEW"]]

\* the views query settles
SchemaViewsSettle ==
    /\ spc = "views"
    /\ UNCHANGED <<schemaFixed, recs, mode, poolPromise>>
    /\ \/ \E rs \in QueryViews(db, VIEW_WHITELIST) : StepTables(PushViews(objects, rs))
       \/ SchemaFail("database error", objects, FALSE)

\* the allow-list query settles
SchemaTablesSettle ==
    /\ spc = "tables"
    /\ UNCHANGED <<schemaFixed, recs, mode, poolPromise>>
    /\ \/ \E rs \in QueryTables(db, AllowParams(Allow)) : StepScan(PushTables(objects, rs))
       \/ SchemaFail("database error", objects, FALSE)

\* the catalog scan settles
SchemaScanSettle ==
    /\ spc = "scan"
    /\ UNCHANGED <<schemaFixed, recs, mode, poolPromise>>
    /\ \/ StepColumns(PushScanned(objects, QueryScan(db, TypePreds, EXCLUDE_SCHEMAS)), TRUE)
       \/ SchemaFail("database error", objects, FALSE)

\* the columns query settles; the primary-key query is sent
SchemaColumnsSettle ==
    /\ spc = "columns"
    /\ UNCHANGED <<schemaFixed, mode, poolPromise>>
    /\ \/ /\ recs' = [recs EXCEPT !.columns = QueryColumns(db, QNames(objects))]
          /\ Issue("pk", PairParams(QNames(objects)), objects, usingCatalogFallback)
       \/ /\ SchemaFail("database error", objects, usingCatalogFallback)
          /\ UNCHANGED recs

\* the primary-key query settles; the foreign-key query is sent
SchemaPkSettle ==
    /\ spc = "pk"
    /\ UNCHANGED <<schemaFixed, mode, poolPromise>>
    /\ \/ /\ recs' = [recs EXCEPT !.pk = QueryPk(db, PairParams(QNames(objects)))]
          /\ Issue("fk", PairParams(QNames(objects)), objects, usingCatalogFallback)
       \/ /\ SchemaFail("database error", objects, usingCatalogFallback)
          /\ UNCHANGED recs

\* the foreign-key query settles and the handler assembles its response
SchemaFkSettle ==
    /\ spc = "fk"
    /\ UNCHANGED <<schemaFixed, mode, poolPromise>>
    /\ \/ \E rs \in QueryFk(db, PairParams(QNames(objects))) :
             /\ recs' = [recs EXCEPT !.fk = rs]
             /\ Return(Catalog(objects, recs', usingCatalogFallback, mode),
                       objects, usingCatalogFallback)
       \/ /\ SchemaFail("database error", objects, usingCatalogFallback)
          /\ UNCHANGED recs

\* the names of a response's tables list
TableNames(resp) == [i \in 1..Len(resp.tables) |-> resp.tables[i].name]

\* the same request arrives again; the handler's locals start afresh
SchemaRepeat ==
    /\ spc = "done"
    /\ round = "first"
    /\ sresp.status = 200
    /\ round' = "repeat"
    /\ firstNames' = TableNames(sresp)
    /\ spc' = "start"
    /\ mode' = <<>>
    /\ objects' = <<>>
    /\ usingCatalogFallback' = FALSE
    /\ scalls' = <<>>
    /\ recs' = NoRecs
    /\ sresp' = NoSchemaResponse
    /\ slog' = <<>>
    /\ UNCHANGED <<fnVars, handlerVars, poolVars, sreq, senv, db>>

NextSchema ==
    \/ SchemaStart
    \/ SchemaTokenSettles
    \/ SchemaPoolSettles
    \/ SchemaViewsSettle
    \/ SchemaTablesSettle
    \/ SchemaScanSettle
    \/ SchemaColumnsSettle
    \/ SchemaPkSettle
    \/ SchemaFkSettle
    \/ SchemaRepeat

SpecSchema == InitSchema /\ [][NextSchema]_vars

SchemaDone == spc = "done"


(***************************************************************************)
(* SpecApp: one request to either endpoint.                                *)
(***************************************************************************)
InitApp == Init \/ InitSchema

NextApp == Next \/ NextSchema

SpecApp == InitApp /\ [][NextApp]_vars

\* the errors that reached the catch block of the sql-query handler
Caught == {i \in 1..Len(log) : log[i].level = "error"}

\* a finished sql-query request has a structured response: 400 for a missing
\* or non-string sql, 500 with the message of the failure for every failure
QueryAnswered ==
    pc = "done" =>
        /\ response.status \in {200, 400, 500}
        /\ response.status # 200 => response.error # ""
        /\ (body.ok /\ (~Truthy(body.sql) \/ TypeOf(body.sql) # "string"))
               => response.status = 400
        /\ ~body.ok => response.status = 500
        /\ (body.ok /\ TypeOf(body.sql) = "string" /\ Truthy(body.sql)
               /\ (~BeginsWithSelectKeyword(Trim(body.sql.s)) \/ ContainsListedToken(body.sql.s)))
               => response.status = 500
        /\ response.status = 400 => Caught = {}
        /\ response.status = 200 => Caught = {}
        /\ Caught # {} => response.status = 500
        /\ response.status = 500 =>
               /\ Cardinality(Caught) = 1
               /\ \A i \in Caught : response.error = log[i].error

\* a finished sql-schema request has a structured response: 500 with the
\* message of the failure for every failure, 200 otherwise
SchemaAnswered ==
    spc = "done" =>
        /\ sresp.status \in {200, 500}
        /\ slog # <<>> => sresp.status = 500
        /\ sresp.status = 500 => Len(slog) = 1 /\ sresp.error = slog[1] /\ sresp.error # ""
        /\ (Truthy(ModeValue) /\ TypeOf(ModeValue) # "string") => sresp.status = 500

\* the body of a POST to sql-schema that is not JSON
SchemaBodyUnparseable == sreq.method = "POST" /\ ~sreq.bodyOk

\* C12 as stated: every request ends with a structured response, 400 for a
\* missing or non-string sql and 500 with the failure's message for every
\* failure, an unparseable request body included, on both endpoints
C12_FailuresAnswered500 ==
    /\ QueryAnswered
    /\ SchemaAnswered
    /\ (spc = "done" /\ SchemaBodyUnparseable) => sresp.status = 500

\* C12 as amended: as above, except that sql-schema reads an unparseable body
\* as an empty object, so that the request is answered as the same request
\* without a body would be and fails only if something else fails
C12_FailuresAnswered ==
    /\ QueryAnswered
    /\ SchemaAnswered
    /\ (spc \notin {"off", "start"} /\ SchemaBodyUnparseable) =>
           mode = LowerText((IF Truthy(sreq.header) THEN sreq.header
                             ELSE JsString(OBJECT_TYPES_DEFAULT)).s)
    /\ (spc = "done" /\ SchemaBodyUnparseable /\ sresp.status = 500) =>
           sresp.error \in {"token acquisition failed", "connection failed", "database error"}

\* an unparseable body sent to sql-schema was answered with a catalog
C12_Witness ==
    /\ spc = "done"
    /\ SchemaBodyUnparseable
    /\ sresp.status = 200
    /\ Len(sresp.tables) > 0


\* the audit records written through ctx.log
AuditRecords == {i \in 1..Len(log) : log[i].level = "info"}

\* the keys an audit record may carry; none of them holds a param value
AuditKeys == {"sql", "row_count", "execution_time_ms", "user", "error"}

\* the SQL text of the request as the audit log would truncate it
AuditedSql == Substring(body.sql.s, 0, AuditSqlMax)

\* C13: every failure path of a sql-query request (missing sql, validation
\* rejection, execution failure) writes an audit record with the truncated
\* SQL text, the timing and the outcome, and no audit record on any path
\* holds a bound parameter value
C13_FailuresAudited ==
    /\ (pc = "done" /\ body.ok /\ response.status \in {400, 500}) =>
           \E i \in AuditRecords :
               /\ "execution_time_ms" \in log[i].keys
               /\ "error" \in log[i].keys
               /\ TypeOf(body.sql) = "string" =>
                      ("sql" \in log[i].keys /\ log[i].sql = AuditedSql)
    /\ \A i \in AuditRecords : log[i].keys \subseteq AuditKeys


(***************************************************************************)
(* Properties of schema resolution and assembly, checked under SpecSchema. *)
(***************************************************************************)
\* the relation a database object is
Rel(o) == [schema |-> o.schema, name |-> o.name]

\* the relations of a list of resolved objects
RelsOf(objs) == {[schema |-> objs[i].schema, name |-> objs[i].name] : i \in 1..Len(objs)}

\* the views whose name matches the configured pattern
ViewMatches == {Rel(o) : o \in {x \in db.objs : x.type = "V" /\ Like(x.name, VIEW_WHITELIST)}}

\* entry e (text) names base table o: schema.name names the table of that
\* schema and name, schema.* every table of that schema
EntryMatches(e, o) ==
    LET parts == Split(e, ".")
    IN  /\ o.type = "U"
        /\ Len(parts) >= 2
        /\ DbEq(parts[1], o.schema)
        /\ parts[2] = <<"*">> \/ DbEq(parts[2], o.name)

\* the texts among the allow-list entries in force
EntriesInForce == {Allow[i].s : i \in {j \in 1..Len(Allow) : TypeOf(Allow[j]) = "string"}}

\* the base tables that some entry in force names
AllowMatches == {Rel(o) : o \in {x \in db.objs : \E e \in EntriesInForce : EntryMatches(e, x)}}

\* the kinds the configuration includes
IncludedTypes ==
    (IF Includes(INCLUDE_TYPES, mTables) THEN {"U"} ELSE {})
        \cup (IF Includes(INCLUDE_TYPES, mViews) THEN {"V"} ELSE {})

\* the user objects a catalog scan may show
ScanMatches ==
    {Rel(o) : o \in {x \in db.objs :
                        /\ ~x.shipped
                        /\ x.type \in IncludedTypes
                        /\ \A i \in 1..Len(EXCLUDE_SCHEMAS) : ~DbEq(x.schema, EXCLUDE_SCHEMAS[i])}}

\* the queries of resolution that the handler has sent
Sent(q) == \E i \in 1..Len(scalls) : scalls[i].q = q

\* what the resolution steps that ran can have produced
Resolvable ==
    (IF Sent("views") THEN ViewMatches ELSE {})
        \cup (IF Sent("tables") THEN AllowMatches ELSE {})
        \cup (IF Sent("scan") THEN ScanMatches ELSE {})

SchemaOk == spc = "done" /\ sresp.status = 200

\* C14: the tables list of a catalog has one entry per resolved relation, in
\* the order of resolution, every entry is a relation that a resolution step
\* of this request produced, and no other relation has an entry
C14_CatalogIsResolvedSet ==
    SchemaOk =>
        /\ TableNames(sresp) = QNames(objects)
        /\ RelsOf(objects) \subseteq Resolvable
        /\ \A i, j \in 1..Len(objects) : i # j => Rel(objects[i]) # Rel(objects[j])

\* a catalog of several relations, one of them without any column
C14_Witness ==
    /\ SchemaOk
    /\ Len(sresp.tables) >= 2
    /\ \E i \in 1..Len(sresp.tables) : sresp.tables[i].columns = <<>>
    /\ \E i \in 1..Len(sresp.tables) : sresp.tables[i].columns # <<>>


\* a table allow-list is in force: the server configures one or the caller
\* supplies a non-empty tables list
AllowInForce == Len(OBJECT_ALLOWLIST) > 0 \/ ClientLength > 0

\* the base tables among the resolved objects
ResolvedTables(objs) ==
    {[schema |-> objs[i].schema, name |-> objs[i].name] :
        i \in {j \in 1..Len(objs) : objs[j].type = "TABLE"}}

\* C15: whenever a table allow-list is in force and the mode includes tables,
\* no base table that matches none of the entries in force is in the resolved
\* set, even when the entries match nothing in the database
C15_AllowListNeverWidened ==
    (SchemaOk /\ AllowInForce /\ mode \in {mTables, mBoth}) =>
        ResolvedTables(objects) \subseteq AllowMatches


\* e is of the form schema.name or schema.*
WellFormedEntry(e) ==
    LET parts == Split(e, ".")
    IN  Len(parts) = 2 /\ parts[1] # <<>> /\ parts[2] # <<>>

\* e is a literal schema.name
LiteralEntry(e) == WellFormedEntry(e) /\ Split(e, ".")[2] # <<"*">>

\* the base tables
BaseTables == {o \in db.objs : o.type = "U"}

AllEntriesAreTexts == \A i \in 1..Len(Allow) : TypeOf(Allow[i]) = "string"

\* C16: with mode 'tables' and an allow-list of literal schema.name entries
\* that exist as base tables, the resolved set is exactly those tables; and
\* with entries schema.name or schema.*, what the allow-list step adds is
\* exactly the named tables and, for schema.*, every base table of that
\* schema and none of another
C16_AllowListResolvesExactly ==
    /\ (SchemaOk /\ mode = mTables /\ AllowInForce /\ AllEntriesAreTexts
          /\ \A e \in EntriesInForce :
                LiteralEntry(e) /\ \E o \in BaseTables : EntryMatches(e, o))
         => /\ RelsOf(objects) = AllowMatches
            /\ Len(objects) = Cardinality(AllowMatches)
            /\ Len(objects) <= Cardinality(EntriesInForce)
            /\ \A i \in 1..Len(objects) : objects[i].type = "TABLE"
    /\ (spc \in {"scan", "columns"} /\ ~usingCatalogFallback /\ mode = mTables
          /\ AllowInForce /\ AllEntriesAreTexts
          /\ \A e \in EntriesInForce : WellFormedEntry(e))
         => /\ RelsOf(objects) =
                   {Rel(o) : o \in {x \in BaseTables :
                       \E e \in EntriesInForce :
                          LET parts == Split(e, ".")
                          IN  /\ DbEq(parts[1], x.schema)
                              /\ parts[2] # <<"*">> => DbEq(parts[2], x.name)}}
            /\ Len(objects) = Cardinality(RelsOf(objects))
            /\ \A i \in 1..Len(objects) : objects[i].type = "TABLE"

\* the allow-list ['SalesLT.Customer'] in mode 'tables' resolved to the one
\* relation SalesLT.Customer
C16_Witness ==
    /\ SchemaOk
    /\ mode = mTables
    /\ Allow = << JsString(<<"S","a","l","e","s","L","T",".","C","u","s","t","o","m","e","r">>) >>
    /\ TableNames(sresp) = << <<"S","a","l","e","s","L","T",".","C","u","s","t","o","m","e","r">> >>
    /\ Cardinality(BaseTables) > 1


\* the database object a resolved relation is
ObjectOf(r) == CHOOSE o \in db.objs : Rel(o) = [schema |-> r.schema, name |-> r.name]

InfrastructureErrors == {"token acquisition failed", "connection failed", "database error"}

\* the allow-list step applies to this request
AllowStepApplies == mode \in {mTables, mBoth} /\ AllowInForce

\* C18: an allow-list entry that matches nothing, is not of the form
\* schema.name, or is not a string is skipped: the request does not fail
\* because of it and the remaining entries are still resolved
C18_BadEntriesSkipped ==
    /\ (spc = "done" /\ AllowStepApplies /\ sresp.status = 500)
          => sresp.error \in InfrastructureErrors
    /\ (SchemaOk /\ AllowStepApplies) => AllowMatches \subseteq RelsOf(objects)


\* C19: the resolved list holds no relation twice, also when allow-list
\* entries overlap or repeat, and the same request served again against the
\* unchanged database yields the same list in the same order
C19_DedupedAndDeterministic ==
    /\ spc \in {"columns", "pk", "fk", "done"} =>
          \A i, j \in 1..Len(objects) : i # j => Rel(objects[i]) # Rel(objects[j])
    /\ (SchemaOk /\ round = "repeat") => TableNames(sresp) = firstNames


\* the foreign-key edges that relation qn owns in the database
EdgesOf(qn) == {f \in db.fks : f.ps \o <<".">> \o f.pt = qn}

\* a two-alias INNER JOIN of owner and target on the column pair of edge e
TwoAliasInnerJoin(owner, e) ==
    <<"S","E","L","E","C","T"," ","t","1",".","*",","," ","t","2",".","*"," ","F","R","O","M"," ">> \o owner \o <<" ","t","1"," ","I","N","N","E","R"," ","J","O","I","N"," ">> \o e.ref_table
        \o <<" ","t","2"," ","O","N"," ","t","1",".">> \o e.column \o <<" ","="," ","t","2",".">> \o e.ref_column

C21_SelectKeywordAccepted ==
    (/\ fnOp = "validateSelectOnly"
     /\ BeginsWithSelectKeyword(Trim(fnIn))
     /\ ~ContainsListedToken(fnIn)
     /\ ~BannedTest(Trim(fnIn)))
        => fnOut = Ok(Trim(fnIn))

\* an identifier of s begins at index i with the prefix p, in any letter case
IdentifierBeginsWith(s, i, p) ==
    /\ (i = 1 \/ ~IsWordChar(s[i - 1]))
    /\ i + Len(p) - 1 <= Len(s)
    /\ \A k \in 1..Len(p) : ToLower(s[i + k - 1]) = p[k]

ProcedurePrefixes == { <<"x","p","_">>, <<"s","p","_">> }

ContainsProcedurePrefix(s) ==
    \E i \in 1..Len(s), p \in ProcedurePrefixes : IdentifierBeginsWith(s, i, p)

\* C22: a statement that contains an identifier beginning with xp_ or sp_ is
\* rejected by validateSelectOnly
C22_ProcedurePrefixRejected ==
    (fnOp = "validateSelectOnly" /\ ContainsProcedurePrefix(fnIn)) => fnOut.err # ""


(***************************************************************************)
(* Later calls of getPool, checked under SpecPool.                         *)
(***************************************************************************)
\* the pools whose connection attempt succeeded
Established == {i \in 1..Len(pools) : pools[i].st = "resolved"}

\* caller c runs getPool from its entry in this step
Enters(c) == gpPc[c] = "idle" /\ gpPc'[c] # "idle"

\* C23: once a connection pool is established, every getPool call that starts
\* later opens no new pool and returns the established handle, whatever the
\* other initialisations that were started concurrently do
C23_EstablishedPoolReused ==
    [][\A c \in Callers :
          (Enters(c) /\ Established # {}) =>
              /\ gpPc'[c] = "awaitPool"
              /\ gpAwait'[c] \in Established
              /\ pools' = pools]_vars

\* some getPool call has failed: its token request or its connection was rejected
SomeCallFailed == \E d \in Callers : gpPc[d] = "failed"

\* C29: after a getPool call has failed, a getPool call that starts later is
\* never handed the failed connection promise: it starts a fresh
\* initialisation or awaits one that has not failed
C29_FailureNotCached ==
    [][\A c \in Callers :
          (Enters(c) /\ SomeCallFailed /\ gpPc'[c] = "awaitPool") =>
              pools'[gpAwait'[c]].st # "rejected"]_vars


(***************************************************************************)
(* Notes, introspection calls and scoping of the catalog, checked under    *)
(* SpecSchema.                                                             *)
(***************************************************************************)
\* C24: the notes of a catalog are the fallback text whenever resolution sent
\* the catalog scan, also when the scan returned no relation, and the scoped
\* text whenever it did not
C24_NotesTellFallback ==
    SchemaOk =>
        /\ Sent("scan") => sresp.notes = FallbackNotes
        /\ ~Sent("scan") => sresp.notes = ScopedNotes(mode)

IntrospectionQueries == {"columns", "pk", "fk"}

\* the schema-qualified name that identifies resolved relation o
QualifiedName(o) == o.schema \o <<".">> \o o.name

\* the (schema, name) pairs that identify the resolved relations
RelationPairs(objs) ==
    [i \in 1..Len(objs) |-> [s |-> JsString(objs[i].schema), n |-> JsString(objs[i].name)]]

\* the last three queries are the columns, primary-key and foreign-key
\* queries, in that order, and no introspection query precedes them
ThreeCallsInOrder ==
    LET n == Len(scalls)
    IN  /\ n >= 3
        /\ scalls[n - 2].q = "columns" /\ scalls[n - 1].q = "pk" /\ scalls[n].q = "fk"
        /\ \A i \in 1..(n - 3) : scalls[i].q \notin IntrospectionQueries

\* each introspection query is scoped to the resolved relations and no other
ScopedToResolved ==
    LET n == Len(scalls)
    IN  /\ scalls[n - 2].params = [i \in 1..Len(objects) |-> QualifiedName(objects[i])]
        /\ scalls[n - 1].params = RelationPairs(objects)
        /\ scalls[n].params = RelationPairs(objects)

\* C25: for a non-empty resolved set the handler issues exactly three
\* introspection queries, columns then primary keys then foreign keys, after
\* the resolution queries, each scoped to exactly the resolved relations; for
\* an empty resolved set it issues none and answers with an empty tables list
\* and the common-query templates
C25_ThreeScopedCalls ==
    SchemaOk =>
        IF objects # <<>>
        THEN ThreeCallsInOrder /\ ScopedToResolved
        ELSE /\ \A i \in 1..Len(scalls) : scalls[i].q \notin IntrospectionQueries
             /\ sresp.tables = <<>>
             /\ sresp.common_queries = getCommonQueryTemplates


\* the schema-qualified names of the resolved relations
ResolvedNames == {QualifiedName(objects[i]) : i \in 1..Len(objects)}

\* C26: every foreign-key edge listed in an entry's fks refers to a relation of
\* the resolved set, and every sample join joins the entry's own relation with
\* a relation of the resolved set
C26_NoRelationLeaks ==
    SchemaOk =>
        \A i \in 1..Len(sresp.tables) :
            LET t == sresp.tables[i]
            IN  /\ \A k \in 1..Len(t.fks) : t.fks[k].ref_table \in ResolvedNames
                /\ \A k \in 1..Len(t.sample_joins) :
                      \E other \in ResolvedNames, e \in {t.fks[j] : j \in 1..Len(t.fks)} :
                          /\ e.ref_table = other
                          /\ t.sample_joins[k].template = TwoAliasInnerJoin(t.name, e)

\* the base tables that some entry of the server allow-list names
ServerAllowMatches ==
    {Rel(o) : o \in {x \in db.objs :
                        \E i \in 1..Len(OBJECT_ALLOWLIST) : EntryMatches(OBJECT_ALLOWLIST[i], x)}}

ResolvedKinds == {objects[i].type : i \in 1..Len(objects)}

\* C28: every relation in the catalog of a request with mode 'views' is a
\* view and every relation in the catalog of a request with mode 'tables' is
\* a base table, on every resolution path
C28_ModeBoundsKinds ==
    SchemaOk =>
        /\ mode = mViews => ResolvedKinds \subseteq {"VIEW"}
        /\ mode = mTables => ResolvedKinds \subseteq {"TABLE"}



(***************************************************************************)
(* The range of the values bound as Int, checked under SpecFn.             *)
(***************************************************************************)
\* 2^31 - 1 and 2^31 in decimal digits
Int32MaxDigits == <<"2","1","4","7","4","8","3","6","4","7">>

Int32MinDigits == <<"2","1","4","7","4","8","3","6","4","8">>

\* a <= b for two digit texts of the same length
RECURSIVE DigitsLeq(_, _)
DigitsLeq(a, b) ==
    IF a = <<>> THEN TRUE
    ELSE IF DigitValue(Head(a)) # DigitValue(Head(b))
    THEN DigitValue(Head(a)) < DigitValue(Head(b))
    ELSE DigitsLeq(Tail(a), Tail(b))

\* the whole number v lies in [-2^31, 2^31 - 1]; a number held in tenths is
\* smaller in magnitude than 2^31 / 10
InInt32(v) ==
    IF v.s = <<>> THEN TRUE
    ELSE LET neg == Head(v.s) = "-"
             d   == IF neg THEN Tail(v.s) ELSE v.s
             top == IF neg THEN Int32MinDigits ELSE Int32MaxDigits
         IN  Len(d) < Len(top) \/ (Len(d) = Len(top) /\ DigitsLeq(d, top))

\* C30: every value that runQuery binds with the wire type Int lies in the
\* signed 32-bit range; a whole number outside it gets another type
C30_IntBindingsIn32Bits ==
    fnOp = "runQuery" =>
        \A i \in 1..Len(fnBound) : fnBound[i].type = "Int" => InInt32(fnBound[i].value)


============================================================================
